---- MODULE Spec2Model ----
(***************************************************************************)
(* A model of the BitTorrent client:                                       *)
(*   - src/src/piece.rs     Piece::new and the heap order of pieces        *)
(*   - src/src/download.rs  download::all: the sessions opened, the piece  *)
(*                          loop; Downloaded and its iterator              *)
(*   - src/src/torrent.rs   Torrent::run and the heartbeat task            *)
(*   - src/src/peer.rs      Peer::new, Peer::participate (the per-session  *)
(*                          work loop) and MessageFramer                   *)
(*   - src/src/bitfield.rs, src/src/bit_vec.rs  Bitfield and BitVec        *)
(*   - src/src/lru_cache.rs LruCache                                       *)
(* Each component has its own specification; the variables of the others   *)
(* stay at their idle values.                                              *)
(*                                                                         *)
(* Lengths are in bytes.  The content of a block is one value: 0 is the    *)
(* zero fill of a fresh buffer, 1 the bytes of the original file, 2 any    *)
(* other bytes.  A panic of the task that runs download::all (a failed     *)
(* assert!, expect or library precondition) ends the run in pc =           *)
(* "panicked"; a returned Result ends it in pc = "returned".               *)
(***************************************************************************)
EXTENDS Integers, Sequences, FiniteSets, TLC

\* ------------------------------------------------------------- bounds
\* number of connected sessions in the peers Vec
MaxPeers == 2
\* the torrent's total length is below (MaxBlocks + 1) * BLOCK_MAX
MaxBlocks == 1
\* length of a short last block, in bytes
TailLen == 5
\* largest total length and piece length of the Piece::new specification
MaxLength == 12
MaxPieceLength == 5
\* items (messages, keep-alives, raw bytes) put on one stream
MaxFrames == 3
\* payload bytes of a message on a stream that arrives in pieces
MaxPayload == 1
\* largest capacity of a Bitfield or BitVec
MaxBits == 9
\* addresses in a tracker response to the heartbeat
MaxAddrs == 2
\* largest interval a tracker response asks for, in seconds
MaxInterval == 2
\* failed announces in a row
MaxFails == 3
\* sessions Torrent::run pushes to peers
MaxSessions == 6
\* addresses in the tracker response to download::all
MaxConnAddrs == 7
\* files of a Downloaded, and bytes of its longest file
MaxFiles == 3
MaxFileLen == 2
\* keys 0..MaxKey and capacities 1..MaxCap of an LruCache
MaxKey == 2
MaxCap == 2

\* ---------------------------------------------------------- constants
BLOCK_MAX == 16384

Peers == 0 .. (MaxPeers - 1)
NoBlock == -1
NoPiece == [index |-> -1, length |-> 0, hash |-> <<>>, peers |-> {}]
NoJoin == [peer |-> -1, res |-> "none"]
NoMsg == [typ |-> "None", n |-> 0, index |-> 0, begin |-> 0, data |-> 0]
LEAD == 8

MessageTypes ==
    {"Choke", "Unchoke", "Interested", "NotInterested", "Have",
     "Bitfield", "Request", "Piece", "Cancel"}

VARIABLES
    torrent,            \* dot_torrent: [length, piece_length]
    bitfield,           \* peers[p].bitfield: the pieces peer p advertised
    chocked,            \* peers[p].chocked
    pc,                 \* where download::all is
    result,             \* the Result returned, or the panic message
    pieces_to_download, \* the BinaryHeap<Piece>
    unavailable_pieces, \* the Vec<Piece> of pieces no peer has
    downloaded_pieces,  \* the writes made into the output buffer
    piece,              \* the piece popped for this iteration
    n_blocks,           \* its number of blocks
    job_q,              \* the kanal channel (job_tx, job_rx)
    done_q,             \* the tokio channel (done_tx, done_rx)
    downloaded_blocks,  \* the piece buffer, one value per block
    bytes_received,
    participants,       \* the futures still in the FuturesUnordered
    spc,                \* where each session's participate future is
    joined,             \* what participants.next() yielded last
    block_i,            \* the block each session holds (a local of its future)
    msg,                \* the Piece message a session is about to hand over
    outstanding         \* Requests each session sent in this piece that
                        \* neither a matching Piece nor a Choke resolved

\* Peer::new
VARIABLES
    remote,             \* what the remote end will send: handshake, message
    new_pc,             \* where Peer::new is
    handshake,          \* the 68-byte handshake buffer
    new_peer            \* the Result that Peer::new returned

\* MessageFramer
VARIABLES
    dst,                \* the bytes encoded and not yet arrived at the reader
    src,                \* the read buffer that decode works on
    stream,             \* what was put on the stream, in order
    delivered,          \* the messages decode returned, in order
    enc,                \* what the last encode returned
    dec                 \* what the last decode returned; "idle" after bytes
                        \* arrived and before decode ran on them

\* Bitfield and BitVec
VARIABLES
    bfield,             \* a Bitfield: [bytes, n_bits]
    bfield_set,         \* the indices that set accepted on bfield
    bfield_ret,         \* what the last call on bfield returned
    bv,                 \* a BitVec: [bytes, n_bits]
    bv_ret              \* what the last call on bv returned

\* LruCache
VARIABLES
    cache,              \* an LruCache: [map, cap, head, tail]
    mem,                \* the nodes on the heap, by address
    lru_call,           \* the last call on cache: [op, k, v]
    lru_ret,            \* what the last call on cache returned
    lru_seen            \* the entries the last iteration over cache yielded

\* Torrent::run and the heartbeat task
VARIABLES
    hb_pc,              \* where the heartbeat task stands
    interval,           \* heartbeat: seconds to sleep before the next round
    backoff,            \* heartbeat: seconds to sleep after a failed announce
    resp,               \* heartbeat: what query_tracker returned
    fails,              \* failed announces since the last successful one
    metadata_lock,      \* who holds the lock of metadata
    peer_addrs_lock,    \* who holds the lock of peer_addrs
    peers_lock,         \* who holds the lock of peers
    peer_addrs,         \* the addresses the tracker sent last
    notify,             \* the Notify holds a permit
    run_pc,             \* where Torrent::run stands
    pending,            \* run: addresses the stream has not started yet
    inflight,           \* run: addresses with a Peer::new in progress
    n_peers             \* peers.len()

\* download::all, lines 20-39: the sessions are opened
VARIABLES
    conn_pc,            \* "connect" in the while loop, "done" after it
    attempts,           \* per address of the response: how far Peer::new is
    conn_peers,         \* the peers Vec: the addresses of its sessions
    conn_log            \* the addresses of the "failed to connect" lines

\* Downloaded and its iterator
VARIABLES
    dl_files,           \* Downloaded::files: the length of each file
    dl_bytes,           \* Downloaded::bytes
    dl_iter,            \* a DownloadedIter: [next, offset]
    dl_out              \* the DownloadedFile values it yielded:
                        \* [file, start, bytes]

downloadVars ==
    <<torrent, bitfield, chocked, pc, result, pieces_to_download,
      unavailable_pieces, downloaded_pieces, piece, n_blocks, job_q, done_q,
      downloaded_blocks, bytes_received, participants, spc, joined, block_i,
      msg, outstanding>>
newVars == <<remote, new_pc, handshake, new_peer>>
codecVars == <<dst, src, stream, delivered, enc, dec>>
bitsVars == <<bfield, bfield_set, bfield_ret, bv, bv_ret>>
\* the variables of the components that download::all does not run
lruVars == <<cache, mem, lru_call, lru_ret, lru_seen>>
torrentVars ==
    <<hb_pc, interval, backoff, resp, fails, metadata_lock, peer_addrs_lock,
      peers_lock, peer_addrs, notify, run_pc, pending, inflight, n_peers>>
connVars == <<conn_pc, attempts, conn_peers, conn_log>>
filesVars == <<dl_files, dl_bytes, dl_iter, dl_out>>
laterVars == <<torrentVars, connVars, filesVars>>
otherVars == <<newVars, codecVars, bitsVars, lruVars, laterVars>>

vars == <<downloadVars, otherVars>>

\* ------------------------------------------------------------ helpers
CeilDiv(a, b) == (a + b - 1) \div b

RECURSIVE Fold(_, _)
Fold(s, h) == IF s = <<>> THEN h ELSE Fold(Tail(s), 3 * h + Head(s))

\* the SHA-1 digest of a buffer of size bytes whose content, block by
\* block, is buf: two buffers have the same digest only when they have the
\* same size and the same content (base-3 positional code of the content)
Sha1(size, buf) == <<size, Fold(buf, 1)>>

\* DotTorrent::length
TorrentLength(t) == t.length

\* number of 20-byte hashes in info.pieces, as create_torrent writes them
NPieces(t) == CeilDiv(t.length, t.piece_length)

\* the size create_torrent hashes for piece piece_i
CreatePieceSize(t, piece_i) ==
    IF piece_i = NPieces(t) - 1
    THEN LET modulo == t.length % t.piece_length
         IN  IF modulo = 0 THEN t.piece_length ELSE modulo
    ELSE t.piece_length

\* the bytes of the original file in a range of that size, block by block
Original(size) == [k \in 1 .. CeilDiv(size, BLOCK_MAX) |-> 1]

\* info.pieces.0[piece_i]
PieceHash(t, piece_i) ==
    Sha1(CreatePieceSize(t, piece_i), Original(CreatePieceSize(t, piece_i)))

\* Piece::new
PieceNew(index, t, bf) ==
    [index  |-> index,
     length |-> IF index = NPieces(t) - 1
                THEN TorrentLength(t) % t.piece_length
                ELSE t.piece_length,
     hash   |-> PieceHash(t, index),
     peers  |-> {p \in DOMAIN bf : index \in bf[p]}]

\* impl Ord for Piece: a <= b.  Pieces with as many peers are ordered by
\* the iteration order of their HashSets, which is arbitrary.
PieceLe(a, b) == Cardinality(a.peers) <= Cardinality(b.peers)

\* BinaryHeap::pop can return these: the greatest pieces of the heap
HeapMax(heap) == {a \in heap : \A b \in heap : PieceLe(b, a)}

\* u32::to_be_bytes of `x as u32`: the four low-order bytes of x
Be4(x) ==
    <<(x \div 16777216) % 256, (x \div 65536) % 256, (x \div 256) % 256,
      x % 256>>

\* u32::from_be_bytes
FromBe4(b) == ((b[1] * 256 + b[2]) * 256 + b[3]) * 256 + b[4]

\* PieceRequest::new
PieceRequestNew(index, begin, length) ==
    [index |-> Be4(index), begin |-> Be4(begin), length |-> Be4(length)]

\* a block size that ignores the remainder of the piece
BlockSizeFull(b, nb, piece_size) == BLOCK_MAX

\* block size computed by participate for block b of a piece
BlockSize(b, nb, piece_size) ==
    IF b = nb - 1
    THEN LET modulo == piece_size % BLOCK_MAX
         IN  IF modulo = 0 THEN BLOCK_MAX ELSE modulo
    ELSE BLOCK_MAX

\* --------------------------------------------------------------- inputs
Lengths ==
    {k * BLOCK_MAX + r : k \in 0 .. MaxBlocks, r \in {0, TailLen}} \ {0}

PieceLengths == {BLOCK_MAX, 2 * BLOCK_MAX}

Torrents == [length : Lengths, piece_length : PieceLengths]

\* what Framed::next can yield to a session: None when the peer closed the
\* connection at a frame boundary, Some(Err) when the decoder fails, or a
\* frame.  n is the payload length; index, begin and data are the fields
\* of a Piece payload of at least LEAD bytes, whose block has n - LEAD bytes.
Closed == [typ |-> "Closed", n |-> 0, index |-> 0, begin |-> 0, data |-> 0]
Invalid == [typ |-> "Invalid", n |-> 0, index |-> 0, begin |-> 0, data |-> 0]

Frame(t, n) == [typ |-> t, n |-> n, index |-> 0, begin |-> 0, data |-> 0]

PieceFramesAt(b) ==
    {[typ |-> "Piece", n |-> LEAD + len, index |-> i, begin |-> b * BLOCK_MAX,
      data |-> d] :
        i \in 0 .. (NPieces(torrent) - 1),
        len \in {BlockSize(b, n_blocks, piece.length),
                 BlockSize(b, n_blocks, piece.length) - 1},
        d \in {1, 2}}

PieceFrames ==
    {Frame("Piece", 0), Frame("Piece", LEAD - 1)}
    \cup UNION {PieceFramesAt(b) : b \in 0 .. (n_blocks - 1)}

RECURSIVE BitfieldCode(_)
\* the bitfield read as a number, piece 0 in the lowest bit
BitfieldCode(have) ==
    IF have = {} THEN 0
    ELSE LET i == CHOOSE x \in have : TRUE
         IN  2 ^ i + BitfieldCode(have \ {i})

\* the sessions that Peer::new yielded, with the bitfields they read.  The
\* order of the peers Vec is the order in which the handshakes completed,
\* which is arbitrary, and nothing below depends on it: the sessions are
\* listed by decreasing bitfield.
ConnectedPeers(t) ==
    {bf \in [Peers -> SUBSET (0 .. (NPieces(t) - 1))] :
        \A p \in Peers :
            (p + 1) \in Peers => BitfieldCode(bf[p]) >= BitfieldCode(bf[p + 1])}

\* what the stream yields besides Piece frames: the end of the stream, a
\* decoder error, and the frames of the other types (Choke and Unchoke also
\* with a payload byte)
ControlFrames ==
    {Closed, Invalid}
    \cup {Frame(t, 0) : t \in MessageTypes \ {"Piece"}}
    \cup {Frame("Choke", 1), Frame("Unchoke", 1)}

\* Have(k): a 4-byte payload that names piece k.  The length of a torrent is
\* below (MaxBlocks + 1) * BLOCK_MAX and a piece is at least BLOCK_MAX long,
\* so 0 .. MaxBlocks holds every piece index
HaveFrames ==
    {[typ |-> "Have", n |-> 4, index |-> k, begin |-> 0, data |-> 0] :
        k \in 0 .. MaxBlocks}

StreamNext == ControlFrames \cup HaveFrames \cup PieceFrames

\* ------------------------------------------- components that are not run
\* Peer::new before it is called
NoHandshake == [length |-> 0, bittorrent |-> "", info_hash |-> 0]
NoFrame == [typ |-> "None", bits |-> {}]
NoPeer == [ok |-> FALSE, err |-> "none", bitfield |-> {}, chocked |-> FALSE]
IdleNew ==
    /\ remote = [handshake |-> NoHandshake, first |-> NoFrame]
    /\ new_pc = "idle"
    /\ handshake = NoHandshake
    /\ new_peer = NoPeer

\* a MessageFramer with empty buffers
IdleCodec ==
    /\ dst = <<>>
    /\ src = <<>>
    /\ stream = <<>>
    /\ delivered = <<>>
    /\ enc = "idle"
    /\ dec = "idle"

\* no Bitfield and no BitVec constructed
NoBits == [bytes |-> <<>>, n_bits |-> 0]
IdleBits ==
    /\ bfield = NoBits
    /\ bfield_set = {}
    /\ bfield_ret = "none"
    /\ bv = NoBits
    /\ bv_ret = "none"

\* no LruCache constructed
Null == -1
NoCache ==
    [map |-> [k \in {} |-> Null], cap |-> 0, head |-> Null, tail |-> Null]
NoCall == [op |-> "none", k |-> Null, v |-> Null]
NoRet == [tag |-> "none", k |-> Null, v |-> Null]
IdleLru ==
    /\ cache = NoCache
    /\ mem = [a \in {} |-> Null]
    /\ lru_call = NoCall
    /\ lru_ret = NoRet
    /\ lru_seen = <<>>

\* no Torrent constructed
NoResp == [ok |-> FALSE, interval |-> 0, peers |-> {}]
IdleTorrent ==
    /\ hb_pc = "idle"
    /\ interval = 0
    /\ backoff = 0
    /\ resp = NoResp
    /\ fails = 0
    /\ metadata_lock = "free"
    /\ peer_addrs_lock = "free"
    /\ peers_lock = "free"
    /\ peer_addrs = {}
    /\ notify = FALSE
    /\ run_pc = "idle"
    /\ pending = {}
    /\ inflight = {}
    /\ n_peers = 0

\* no tracker response to connect to
IdleConn ==
    /\ conn_pc = "idle"
    /\ attempts = <<>>
    /\ conn_peers = <<>>
    /\ conn_log = {}

\* no Downloaded
IdleFiles ==
    /\ dl_files = <<>>
    /\ dl_bytes = <<>>
    /\ dl_iter = [next |-> 0, offset |-> 0]
    /\ dl_out = <<>>

IdleLater == IdleTorrent /\ IdleConn /\ IdleFiles

\* download::all before it is called
IdleDownload ==
    /\ torrent = [length |-> 1, piece_length |-> 1]
    /\ bitfield = [p \in Peers |-> {}]
    /\ chocked = [p \in Peers |-> TRUE]
    /\ pc = "idle"
    /\ result = "none"
    /\ pieces_to_download = {}
    /\ unavailable_pieces = {}
    /\ downloaded_pieces = {}
    /\ piece = NoPiece
    /\ n_blocks = 0
    /\ job_q = <<>>
    /\ done_q = <<>>
    /\ downloaded_blocks = <<>>
    /\ bytes_received = 0
    /\ participants = {}
    /\ spc = [p \in Peers |-> "idle"]
    /\ joined = NoJoin
    /\ block_i = [p \in Peers |-> NoBlock]
    /\ msg = [p \in Peers |-> NoMsg]
    /\ outstanding = [p \in Peers |-> 0]

\* ------------------------------------------------------- download::all
Init ==
    /\ torrent \in Torrents
    /\ bitfield \in ConnectedPeers(torrent)
    /\ chocked = [p \in Peers |-> TRUE]
    /\ pc = "build"
    /\ result = "none"
    /\ pieces_to_download = {}
    /\ unavailable_pieces = {}
    /\ downloaded_pieces = {}
    /\ piece = NoPiece
    /\ n_blocks = 0
    /\ job_q = <<>>
    /\ done_q = <<>>
    /\ downloaded_blocks = <<>>
    /\ bytes_received = 0
    /\ participants = {}
    /\ spc = [p \in Peers |-> "idle"]
    /\ joined = NoJoin
    /\ block_i = [p \in Peers |-> NoBlock]
    /\ msg = [p \in Peers |-> NoMsg]
    /\ outstanding = [p \in Peers |-> 0]
    /\ IdleNew
    /\ IdleCodec
    /\ IdleBits
    /\ IdleLru
    /\ IdleLater

inputVars == <<torrent, bitfield>>
heapVars == <<pieces_to_download, unavailable_pieces>>
pieceVars == <<piece, n_blocks>>
bufVars == <<downloaded_blocks, bytes_received>>
sessVars ==
    <<participants, spc, joined, block_i, msg, outstanding>>

\* the task that runs download::all panics
Panic(m) ==
    /\ pc' = "panicked"
    /\ result' = m

\* lines 43-57: build the heap of pieces, assert that no piece is
\* unavailable
BuildHeap ==
    /\ pc = "build"
    /\ LET all_pieces ==
               {PieceNew(piece_i, torrent, bitfield) :
                    piece_i \in 0 .. (NPieces(torrent) - 1)}
           unavailable == {a \in all_pieces : a.peers = {}}
       IN  /\ unavailable_pieces' = unavailable
           /\ pieces_to_download' = all_pieces \ unavailable
           /\ IF unavailable = {}
              THEN pc' = "pop" /\ result' = result
              ELSE Panic("assertion failed: unavailable_pieces.is_empty()")
    /\ UNCHANGED <<otherVars, inputVars, chocked, downloaded_pieces, pieceVars, job_q,
                   done_q, bufVars, sessVars>>

\* lines 58-93: pop a piece and start its download; lines 163-174 when the
\* heap is empty
StartPiece(next) ==
    LET piece_size == next.length
        nb == CeilDiv(piece_size, BLOCK_MAX)
    IN  /\ piece' = next
        /\ pieces_to_download' = pieces_to_download \ {next}
        /\ n_blocks' = nb
        /\ job_q' = [k \in 1 .. nb |-> k - 1]
        /\ done_q' = <<>>
        /\ block_i' = [p \in Peers |-> NoBlock]
        /\ msg' = [p \in Peers |-> NoMsg]
        /\ outstanding' = [p \in Peers |-> 0]
        /\ joined' = NoJoin
        /\ IF nb = 0
           THEN \* tokio::sync::mpsc::channel panics on a capacity of 0
                /\ Panic("mpsc bounded channel requires buffer > 0")
                /\ UNCHANGED <<participants, spc, bufVars>>
           ELSE /\ pc' = "select"
                /\ result' = result
                /\ participants' = next.peers
                /\ spc' = [p \in Peers |->
                             IF p \in next.peers THEN "start" ELSE "idle"]
                /\ downloaded_blocks' = [k \in 1 .. nb |-> 0]
                /\ bytes_received' = 0

PopPiece ==
    /\ pc = "pop"
    /\ IF pieces_to_download = {}
       THEN /\ pc' = "returned"
            /\ result' = "Ok"
            /\ UNCHANGED <<pieces_to_download, pieceVars, job_q, done_q,
                           bufVars, sessVars>>
       ELSE \E next \in HeapMax(pieces_to_download) : StartPiece(next)
    /\ UNCHANGED <<otherVars, inputVars, chocked, unavailable_pieces, downloaded_pieces>>

\* --------------------------------------------------- Peer::participate
\* the future of session p completes with e: the FuturesUnordered yields it
\* and drops it, with its job_tx, job_rx and done_tx
SessionExit(p, e) ==
    /\ spc' = [spc EXCEPT ![p] = "exited"]
    /\ joined' = [peer |-> p, res |-> e]
    /\ participants' = participants \ {p}
    /\ block_i' = [block_i EXCEPT ![p] = NoBlock]
    /\ msg' = [msg EXCEPT ![p] = NoMsg]

\* drop(participants), at line 142 or while a panic unwinds download::all:
\* the futures still in the FuturesUnordered are cancelled where they
\* wait, and their locals are gone
DropParticipants ==
    /\ participants' = {}
    /\ spc' = [p \in Peers |-> IF p \in participants THEN "dropped" ELSE spc[p]]
    /\ block_i' = [p \in Peers |-> IF p \in participants THEN NoBlock ELSE block_i[p]]
    /\ msg' = [p \in Peers |-> IF p \in participants THEN NoMsg ELSE msg[p]]
    /\ outstanding' = [p \in Peers |-> IF p \in participants THEN 0 ELSE outstanding[p]]

\* a session panics: the futures are polled by the task of download::all,
\* which unwinds
SessionPanic(m) ==
    /\ Panic(m)
    /\ DropParticipants
    /\ UNCHANGED <<joined, job_q>>

\* the top of the 'job loop: wait for Unchoke while chocked
JobLoop(p, is_chocked) == IF is_chocked THEN "wait_unchoke" ELSE "pull"

\* lines 68-75: send Interested
SendInterested(p, sent) ==
    /\ pc = "select"
    /\ spc[p] = "start"
    /\ IF sent
       THEN /\ spc' = [spc EXCEPT ![p] = JobLoop(p, chocked[p])]
            /\ UNCHANGED <<joined, participants, block_i, msg>>
       ELSE SessionExit(p, "send interested message")
    /\ UNCHANGED <<otherVars, inputVars, chocked, pc, result, heapVars, downloaded_pieces,
                   pieceVars, job_q, done_q, bufVars, outstanding>>

\* a message that the arm of its type leaves without effect
Skip ==
    UNCHANGED <<pc, result, chocked, job_q, participants, spc, joined,
                block_i, msg, outstanding>>

\* a bail! or a failed ? of session p
Bail(p, e) ==
    /\ SessionExit(p, e)
    /\ UNCHANGED <<pc, result, chocked, job_q, outstanding>>

\* lines 79-112: one message read while chocked
ChokedRead(p, m) ==
    /\ pc = "select"
    /\ spc[p] = "wait_unchoke"
    /\ CASE m = Closed ->
              /\ SessionPanic("peer always sends an unchoke")
              /\ UNCHANGED chocked
         [] m = Invalid -> Bail(p, "peer message was invalid")
         [] m.typ = "Choke" -> Bail(p, "peer sent unchoke while unchoked")
         [] m.typ = "Unchoke" ->
              /\ chocked' = [chocked EXCEPT ![p] = FALSE]
              /\ IF m.n = 0
                 THEN /\ spc' = [spc EXCEPT ![p] = "pull"]
                      /\ UNCHANGED <<pc, result, job_q, participants, joined,
                                     block_i, msg, outstanding>>
                 ELSE SessionPanic("assertion failed: msg.payload.is_empty()")
         [] m.typ = "Bitfield" -> Bail(p, "peer sent bitfield after handshake")
         [] OTHER -> Skip
    /\ UNCHANGED <<otherVars, inputVars, heapVars, downloaded_pieces, pieceVars, done_q,
                   bufVars>>

\* PullJob of a session that pipelines: it takes the next block while a
\* Request is still out
PullJobPipelined(p, sent) ==
    /\ pc = "select"
    /\ spc[p] \in {"pull", "await_piece"}
    /\ job_q # <<>>
    /\ job_q' = Tail(job_q)
    /\ IF sent
       THEN /\ block_i' = [block_i EXCEPT ![p] = Head(job_q)]
            /\ spc' = [spc EXCEPT ![p] = "await_piece"]
            /\ outstanding' = [outstanding EXCEPT ![p] = @ + 1]
            /\ UNCHANGED <<joined, participants, msg>>
       ELSE /\ SessionExit(p, "send request for block")
            /\ UNCHANGED outstanding
    /\ UNCHANGED <<otherVars, inputVars, chocked, pc, result, heapVars, downloaded_pieces,
                   pieceVars, done_q, bufVars>>

\* lines 114-137: take a block from the work queue and send its Request.
\* job_rx.recv() fails only when no job_tx is left, and every participant
\* holds one.
PullJob(p, sent) ==
    /\ pc = "select"
    /\ spc[p] = "pull"
    /\ IF job_q # <<>>
       THEN /\ job_q' = Tail(job_q)
            /\ IF sent
               THEN /\ block_i' = [block_i EXCEPT ![p] = Head(job_q)]
                    /\ spc' = [spc EXCEPT ![p] = "await_piece"]
                    /\ outstanding' = [outstanding EXCEPT ![p] = @ + 1]
                    /\ UNCHANGED <<joined, participants, msg>>
               ELSE /\ SessionExit(p, "send request for block")
                    /\ UNCHANGED outstanding
       ELSE /\ participants = {}
            /\ SessionExit(p, "Ok")
            /\ UNCHANGED <<job_q, outstanding>>
    /\ UNCHANGED <<otherVars, inputVars, chocked, pc, result, heapVars, downloaded_pieces,
                   pieceVars, done_q, bufVars>>

\* OnChoke of a session that puts the block back and still holds it
OnChokeKeepsBlock(p, m) ==
    IF m.n = 0
    THEN /\ Len(job_q) < n_blocks
         /\ chocked' = [chocked EXCEPT ![p] = TRUE]
         /\ job_q' = Append(job_q, block_i[p])
         /\ UNCHANGED block_i
         /\ spc' = [spc EXCEPT ![p] = JobLoop(p, TRUE)]
         /\ outstanding' = [outstanding EXCEPT ![p] = @ - 1]
         /\ UNCHANGED <<pc, result, joined, participants, msg>>
    ELSE /\ SessionPanic("assertion failed: msg.payload.is_empty()")
         /\ UNCHANGED chocked

\* lines 148-156: Choke while a Request is out
OnChoke(p, m) ==
    IF m.n = 0
    THEN /\ Len(job_q) < n_blocks
         /\ chocked' = [chocked EXCEPT ![p] = TRUE]
         /\ job_q' = Append(job_q, block_i[p])
         /\ block_i' = [block_i EXCEPT ![p] = NoBlock]
         /\ spc' = [spc EXCEPT ![p] = JobLoop(p, TRUE)]
         /\ outstanding' = [outstanding EXCEPT ![p] = @ - 1]
         /\ UNCHANGED <<pc, result, joined, participants, msg>>
    ELSE /\ SessionPanic("assertion failed: msg.payload.is_empty()")
         /\ UNCHANGED chocked

\* OnUnchoke with the arm of the first loop: clear the flag and break, so
\* that the Unchoke message is handed on as if it were the block
OnUnchokeBreak(p, m) ==
    /\ chocked' = [chocked EXCEPT ![p] = FALSE]
    /\ msg' = [msg EXCEPT ![p] = m]
    /\ spc' = [spc EXCEPT ![p] = "send_done"]
    /\ UNCHANGED <<pc, result, job_q, block_i, outstanding, joined, participants>>

\* lines 157-159: Unchoke while a Request is out
OnUnchoke(p, m) == Bail(p, "peer sent unchoke while unchoked")

\* OnPiece without the comparison of index and begin
OnPieceAnyOffset(p, m) ==
    IF m.n < LEAD
    THEN /\ SessionPanic("always get all PieceResponse fields from peer")
         /\ UNCHANGED chocked
    ELSE IF m.n - LEAD # BlockSize(block_i[p], n_blocks, piece.length)
    THEN /\ SessionPanic("assertion failed: block().len() == block_size")
         /\ UNCHANGED chocked
    ELSE /\ msg' = [msg EXCEPT ![p] = m]
         /\ spc' = [spc EXCEPT ![p] = "send_done"]
         /\ outstanding' = [outstanding EXCEPT ![p] = @ - 1]
         /\ UNCHANGED <<pc, result, chocked, job_q, block_i, joined, participants>>

\* lines 173-184: Piece while a Request is out
OnPiece(p, m) ==
    IF m.n < LEAD
    THEN /\ SessionPanic("always get all PieceResponse fields from peer")
         /\ UNCHANGED chocked
    ELSE IF m.index # piece.index \/ m.begin # block_i[p] * BLOCK_MAX
    THEN Skip
    ELSE IF m.n - LEAD # BlockSize(block_i[p], n_blocks, piece.length)
    THEN /\ SessionPanic("assertion failed: block().len() == block_size")
         /\ UNCHANGED chocked
    ELSE /\ msg' = [msg EXCEPT ![p] = m]
         /\ spc' = [spc EXCEPT ![p] = "send_done"]
         /\ outstanding' = [outstanding EXCEPT ![p] = @ - 1]
         /\ UNCHANGED <<pc, result, chocked, job_q, block_i, joined,
                        participants>>

\* lines 140-186: one message read while a Request is out
AwaitRead(p, m) ==
    /\ pc = "select"
    /\ spc[p] = "await_piece"
    /\ CASE m = Closed ->
              /\ SessionPanic("peer always sends an unchoke")
              /\ UNCHANGED chocked
         [] m = Invalid -> Bail(p, "peer message was invalid")
         [] m.typ = "Choke" -> OnChoke(p, m)
         [] m.typ = "Unchoke" -> OnUnchoke(p, m)
         [] m.typ = "Bitfield" -> Bail(p, "peer sent bitfield after handshake")
         [] m.typ = "Piece" -> OnPiece(p, m)
         [] OTHER -> Skip
    /\ UNCHANGED <<otherVars, inputVars, heapVars, downloaded_pieces, pieceVars, done_q,
                   bufVars>>

\* SendDone of a session that also puts its block back on the work queue
SendDoneRequeues(p) ==
    /\ pc = "select"
    /\ spc[p] = "send_done"
    /\ Len(done_q) < n_blocks
    /\ done_q' = Append(done_q, msg[p])
    /\ job_q' = Append(job_q, block_i[p])
    /\ msg' = [msg EXCEPT ![p] = NoMsg]
    /\ block_i' = [block_i EXCEPT ![p] = NoBlock]
    /\ spc' = [spc EXCEPT ![p] = JobLoop(p, chocked[p])]
    /\ UNCHANGED <<otherVars, inputVars, chocked, pc, result, heapVars, downloaded_pieces,
                   pieceVars, bufVars, participants, joined, outstanding>>

\* SendDone of a session that goes on holding the block it handed over
SendDoneKeepsBlock(p) ==
    /\ pc = "select"
    /\ spc[p] = "send_done"
    /\ Len(done_q) < n_blocks
    /\ done_q' = Append(done_q, msg[p])
    /\ msg' = [msg EXCEPT ![p] = NoMsg]
    /\ UNCHANGED block_i
    /\ spc' = [spc EXCEPT ![p] = JobLoop(p, chocked[p])]
    /\ UNCHANGED <<otherVars, inputVars, chocked, pc, result, heapVars, downloaded_pieces,
                   pieceVars, job_q, bufVars, participants, joined, outstanding>>

\* lines 187-188: hand the Piece message to the done channel
SendDone(p) ==
    /\ pc = "select"
    /\ spc[p] = "send_done"
    /\ Len(done_q) < n_blocks
    /\ done_q' = Append(done_q, msg[p])
    /\ msg' = [msg EXCEPT ![p] = NoMsg]
    /\ block_i' = [block_i EXCEPT ![p] = NoBlock]
    /\ spc' = [spc EXCEPT ![p] = JobLoop(p, chocked[p])]
    /\ UNCHANGED <<otherVars, inputVars, chocked, pc, result, heapVars, downloaded_pieces,
                   pieceVars, job_q, bufVars, participants, joined, outstanding>>

\* ------------------------------------------- download::all, piece loop
\* lines 117-133: a message arrives on the done channel
OnDone(m) ==
    LET received == bytes_received + (m.n - LEAD)
    IN  /\ done_q' = Tail(done_q)
        /\ downloaded_blocks' =
               [downloaded_blocks EXCEPT ![(m.begin \div BLOCK_MAX) + 1] = m.data]
        /\ bytes_received' = received
        /\ IF received = piece.length
           THEN pc' = "check" /\ DropParticipants
           ELSE UNCHANGED <<pc, participants, spc, block_i, msg, outstanding>>
        /\ UNCHANGED result

\* lines 134-138: the done channel is closed and empty
OnDoneClosed ==
    /\ IF bytes_received = piece.length
       THEN pc' = "check" /\ UNCHANGED result
       ELSE Panic("assertion failed: bytes_received == piece_size")
    /\ DropParticipants
    /\ UNCHANGED <<done_q, bufVars>>

\* lines 117-139: the done_rx.recv() branch of the select
DoneRecv ==
    /\ pc = "select"
    /\ IF done_q # <<>>
       THEN OnDone(Head(done_q))
       ELSE participants = {} /\ OnDoneClosed
    /\ UNCHANGED <<otherVars, inputVars, chocked, heapVars, downloaded_pieces, pieceVars,
                   job_q, joined>>

\* CheckPiece without the digest comparison
CheckPieceUnverified ==
    /\ pc = "check"
    /\ IF bytes_received # piece.length
       THEN /\ pc' = "returned"
            /\ result' = "no peers left to get piece"
            /\ UNCHANGED downloaded_pieces
       ELSE /\ downloaded_pieces' = downloaded_pieces \cup
                   {[index  |-> piece.index,
                     offset |-> piece.index * torrent.piece_length,
                     length |-> piece.length,
                     data   |-> downloaded_blocks]}
            /\ pc' = "pop"
            /\ UNCHANGED result
    /\ UNCHANGED <<otherVars, inputVars, chocked, heapVars, pieceVars, job_q, done_q,
                   bufVars, sessVars>>

\* CheckPiece with the piece placed by its own length, not by piece_length
CheckPieceAtOwnLength ==
    /\ pc = "check"
    /\ IF bytes_received # piece.length
       THEN /\ pc' = "returned"
            /\ result' = "no peers left to get piece"
            /\ UNCHANGED downloaded_pieces
       ELSE IF Sha1(piece.length, downloaded_blocks) # piece.hash
       THEN /\ Panic("assertion failed: hash == piece.hash()")
            /\ UNCHANGED downloaded_pieces
       ELSE /\ downloaded_pieces' = downloaded_pieces \cup
                   {[index  |-> piece.index,
                     offset |-> piece.index * piece.length,
                     length |-> piece.length,
                     data   |-> downloaded_blocks]}
            /\ pc' = "pop"
            /\ UNCHANGED result
    /\ UNCHANGED <<otherVars, inputVars, chocked, heapVars, pieceVars, job_q, done_q,
                   bufVars, sessVars>>

\* lines 144-160: verify the piece and copy it into the output
CheckPiece ==
    /\ pc = "check"
    /\ IF bytes_received # piece.length
       THEN /\ pc' = "returned"
            /\ result' = "no peers left to get piece"
            /\ UNCHANGED downloaded_pieces
       ELSE IF Sha1(piece.length, downloaded_blocks) # piece.hash
       THEN /\ Panic("assertion failed: hash == piece.hash()")
            /\ UNCHANGED downloaded_pieces
       ELSE /\ downloaded_pieces' = downloaded_pieces \cup
                   {[index  |-> piece.index,
                     offset |-> piece.index * torrent.piece_length,
                     length |-> piece.length,
                     data   |-> downloaded_blocks]}
            /\ pc' = "pop"
            /\ UNCHANGED result
    /\ UNCHANGED <<otherVars, inputVars, chocked, heapVars, pieceVars, job_q, done_q,
                   bufVars, sessVars>>

Next ==
    \/ BuildHeap
    \/ PopPiece
    \/ \E p \in Peers, sent \in BOOLEAN : SendInterested(p, sent)
    \/ \E p \in Peers, m \in StreamNext : ChokedRead(p, m)
    \/ \E p \in Peers, sent \in BOOLEAN : PullJob(p, sent)
    \/ \E p \in Peers, m \in StreamNext : AwaitRead(p, m)
    \/ \E p \in Peers : SendDone(p)
    \/ DoneRecv
    \/ CheckPiece

Spec == Init /\ [][Next]_vars

\* ---------------------------------------------------------- Piece::new
\* Piece::new applied to every piece of every torrent of 1..MaxLength bytes
\* with pieces of 1..MaxPieceLength bytes, one piece per step as the loop of
\* download::all (lines 46-53) does
InitPiece ==
    /\ torrent \in [length : 1 .. MaxLength, piece_length : 1 .. MaxPieceLength]
    /\ bitfield \in [Peers -> {{}, 0 .. (NPieces(torrent) - 1)}]
    /\ chocked = [p \in Peers |-> TRUE]
    /\ pc = "new"
    /\ result = "none"
    /\ pieces_to_download = {}
    /\ unavailable_pieces = {}
    /\ downloaded_pieces = {}
    /\ piece = NoPiece
    /\ n_blocks = 0
    /\ job_q = <<>>
    /\ done_q = <<>>
    /\ downloaded_blocks = <<>>
    /\ bytes_received = 0
    /\ participants = {}
    /\ spc = [p \in Peers |-> "idle"]
    /\ joined = NoJoin
    /\ block_i = [p \in Peers |-> NoBlock]
    /\ msg = [p \in Peers |-> NoMsg]
    /\ outstanding = [p \in Peers |-> 0]
    /\ IdleNew
    /\ IdleCodec
    /\ IdleBits
    /\ IdleLru
    /\ IdleLater

NewPiece ==
    /\ pc = "new"
    /\ LET piece_i == Cardinality(pieces_to_download \cup unavailable_pieces)
           new == PieceNew(piece_i, torrent, bitfield)
       IN  /\ piece_i < NPieces(torrent)
           /\ IF new.peers = {}
              THEN /\ unavailable_pieces' = unavailable_pieces \cup {new}
                   /\ UNCHANGED pieces_to_download
              ELSE /\ pieces_to_download' = pieces_to_download \cup {new}
                   /\ UNCHANGED unavailable_pieces
    /\ UNCHANGED <<otherVars, inputVars, chocked, pc, result, downloaded_pieces, pieceVars,
                   job_q, done_q, bufVars, sessVars>>

NextPiece == NewPiece

SpecPiece == InitPiece /\ [][NextPiece]_vars

\* ----------------------------------------------------------- Peer::new
\* the protocol string of a handshake
Protocol == "BitTorrent protocol"

\* Handshake::new (lines 204-212); 1 stands for the info hash of the torrent
HandshakeNew(info_hash) ==
    [length |-> 19, bittorrent |-> Protocol, info_hash |-> info_hash]

\* the 68 bytes a remote end may answer with
Handshakes ==
    [length : {18, 19, 20},
     bittorrent : {Protocol, "BitTorrent protocoL"},
     info_hash : {1, 2}]

\* what stream.next() may yield first: the end of the stream, a decoder
\* error, or a message; the payload of a Bitfield is the set of its bits
FirstFrames ==
    {[typ |-> t, bits |-> {}] :
        t \in (MessageTypes \ {"Bitfield"}) \cup {"Closed", "Invalid"}}
    \cup {[typ |-> "Bitfield", bits |-> b] : b \in SUBSET (0 .. MaxBlocks)}

InitNew ==
    /\ remote \in [handshake : Handshakes, first : FirstFrames]
    /\ new_pc = "connect"
    /\ handshake = NoHandshake
    /\ new_peer = NoPeer
    /\ IdleDownload
    /\ IdleCodec
    /\ IdleBits
    /\ IdleLru
    /\ IdleLater

\* Peer::new returns Err(e)
NewErr(e) ==
    /\ new_peer' = [NoPeer EXCEPT !.err = e]
    /\ new_pc' = "done"

\* lines 24-25
Connect(ok) ==
    /\ new_pc = "connect"
    /\ IF ok
       THEN /\ handshake' = HandshakeNew(1)
            /\ new_pc' = "write"
            /\ UNCHANGED new_peer
       ELSE /\ NewErr("connect to peer")
            /\ UNCHANGED handshake
    /\ UNCHANGED <<remote, downloadVars, codecVars, bitsVars, lruVars,
                   laterVars>>

\* lines 29-33
WriteHandshake(ok) ==
    /\ new_pc = "write"
    /\ IF ok
       THEN /\ new_pc' = "read"
            /\ UNCHANGED new_peer
       ELSE NewErr("write handshake")
    /\ UNCHANGED <<remote, handshake, downloadVars, codecVars, bitsVars, lruVars,
                   laterVars>>

\* lines 34-37: read_exact overwrites the buffer with the remote's 68 bytes
ReadHandshake(ok) ==
    /\ new_pc = "read"
    /\ IF ok
       THEN /\ handshake' = remote.handshake
            /\ new_pc' = "check"
            /\ UNCHANGED new_peer
       ELSE /\ NewErr("read handshake")
            /\ UNCHANGED handshake
    /\ UNCHANGED <<remote, downloadVars, codecVars, bitsVars, lruVars,
                   laterVars>>

\* CheckHandshake without the ensure! on the length prefix
CheckHandshakeAnyLength ==
    /\ new_pc = "check"
    /\ IF handshake.bittorrent # Protocol
       THEN NewErr("Condition failed: handshake.bittorrent")
       ELSE /\ new_pc' = "first"
            /\ UNCHANGED new_peer
    /\ UNCHANGED <<remote, handshake, downloadVars, codecVars, bitsVars, lruVars,
                   laterVars>>

\* lines 38-40
CheckHandshake ==
    /\ new_pc = "check"
    /\ IF handshake.length # 19
       THEN NewErr("Condition failed: handshake.length == 19")
       ELSE IF handshake.bittorrent # Protocol
       THEN NewErr("Condition failed: handshake.bittorrent")
       ELSE /\ new_pc' = "first"
            /\ UNCHANGED new_peer
    /\ UNCHANGED <<remote, handshake, downloadVars, codecVars, bitsVars, lruVars,
                   laterVars>>

\* lines 41-52
FirstMessage ==
    /\ new_pc = "first"
    /\ LET m == remote.first
       IN  CASE m.typ = "Closed" ->
                  /\ new_peer' = [NoPeer EXCEPT
                                     !.err = "peer always sends a bitfield"]
                  /\ new_pc' = "panicked"
             [] m.typ = "Invalid" -> NewErr("peer message was invalid")
             [] m.typ # "Bitfield" ->
                  NewErr("Condition failed: msg.typ == MessageType::Bitfield")
             [] OTHER ->
                  /\ new_peer' = [ok |-> TRUE, err |-> "none",
                                  bitfield |-> m.bits, chocked |-> TRUE]
                  /\ new_pc' = "done"
    /\ UNCHANGED <<remote, handshake, downloadVars, codecVars, bitsVars, lruVars,
                   laterVars>>

NextNew ==
    \/ \E ok \in BOOLEAN : Connect(ok)
    \/ \E ok \in BOOLEAN : WriteHandshake(ok)
    \/ \E ok \in BOOLEAN : ReadHandshake(ok)
    \/ CheckHandshake
    \/ FirstMessage

SpecNew == InitNew /\ [][NextNew]_vars


\* -------------------------------------------------------- MessageFramer
MAX == 65536

\* MessageType in the order of its discriminants 0..8
TypeNames ==
    <<"Choke", "Unchoke", "Interested", "NotInterested", "Have", "Bitfield",
      "Request", "Piece", "Cancel">>

\* `item.typ as u8`
TagOf(typ) == (CHOOSE v \in 1 .. 9 : TypeNames[v] = typ) - 1

\* BytesMut::advance
Advance(b, n) == SubSeq(b, n + 1, Len(b))

NoItem == [typ |-> "None", payload |-> <<>>]

\* decode that hands the tag byte over as the first byte of the payload
RECURSIVE DecodeTagInPayload(_)
DecodeTagInPayload(b) ==
    IF Len(b) < 4
    THEN [res |-> "need", item |-> NoItem, src |-> b]
    ELSE LET length == FromBe4(SubSeq(b, 1, 4))
         IN  IF length = 0 THEN DecodeTagInPayload(Advance(b, 4))
             ELSE IF Len(b) < 5
             THEN [res |-> "need", item |-> NoItem, src |-> b]
             ELSE IF length > MAX
             THEN [res |-> "too_large", item |-> NoItem, src |-> b]
             ELSE IF Len(b) < 4 + length
             THEN [res |-> "need", item |-> NoItem, src |-> b]
             ELSE IF b[5] \notin 0 .. 8
             THEN [res |-> "bad_type", item |-> NoItem, src |-> b]
             ELSE [res |-> "some",
                   item |-> [typ |-> TypeNames[b[5] + 1],
                             payload |-> SubSeq(b, 5, 4 + length)],
                   src |-> Advance(b, 4 + length)]

\* decode that leaves the bytes after a keep-alive for the next call
DecodeKeepAliveStops(b) ==
    IF Len(b) < 4
    THEN [res |-> "need", item |-> NoItem, src |-> b]
    ELSE LET length == FromBe4(SubSeq(b, 1, 4))
         IN  IF length = 0
             THEN [res |-> "need", item |-> NoItem, src |-> Advance(b, 4)]
             ELSE IF Len(b) < 5
             THEN [res |-> "need", item |-> NoItem, src |-> b]
             ELSE IF length > MAX
             THEN [res |-> "too_large", item |-> NoItem, src |-> b]
             ELSE IF Len(b) < 4 + length
             THEN [res |-> "need", item |-> NoItem, src |-> b]
             ELSE IF b[5] \notin 0 .. 8
             THEN [res |-> "bad_type", item |-> NoItem, src |-> b]
             ELSE [res |-> "some",
                   item |-> [typ |-> TypeNames[b[5] + 1],
                             payload |-> IF length > 1
                                         THEN SubSeq(b, 6, 4 + length)
                                         ELSE <<>>],
                   src |-> Advance(b, 4 + length)]

\* decode that advances past a frame before it looks at the tag
RECURSIVE DecodeDropsBadFrame(_)
DecodeDropsBadFrame(b) ==
    IF Len(b) < 4
    THEN [res |-> "need", item |-> NoItem, src |-> b]
    ELSE LET length == FromBe4(SubSeq(b, 1, 4))
         IN  IF length = 0 THEN DecodeDropsBadFrame(Advance(b, 4))
             ELSE IF Len(b) < 5
             THEN [res |-> "need", item |-> NoItem, src |-> b]
             ELSE IF length > MAX
             THEN [res |-> "too_large", item |-> NoItem, src |-> b]
             ELSE IF Len(b) < 4 + length
             THEN [res |-> "need", item |-> NoItem, src |-> b]
             ELSE IF b[5] \notin 0 .. 8
             THEN [res |-> "bad_type", item |-> NoItem,
                   src |-> Advance(b, 4 + length)]
             ELSE [res |-> "some",
                   item |-> [typ |-> TypeNames[b[5] + 1],
                             payload |-> IF length > 1
                                         THEN SubSeq(b, 6, 4 + length)
                                         ELSE <<>>],
                   src |-> Advance(b, 4 + length)]

\* MessageFramer::decode (lines 360-416): what it returns ("need" is
\* Ok(None), "some" is Ok(Some(item)), the others are the two errors) and
\* what it leaves in the buffer
RECURSIVE Decode(_)
Decode(b) ==
    IF Len(b) < 4
    THEN [res |-> "need", item |-> NoItem, src |-> b]
    ELSE LET length == FromBe4(SubSeq(b, 1, 4))
         IN  IF length = 0 THEN Decode(Advance(b, 4))
             ELSE IF Len(b) < 5
             THEN [res |-> "need", item |-> NoItem, src |-> b]
             ELSE IF length > MAX
             THEN [res |-> "too_large", item |-> NoItem, src |-> b]
             ELSE IF Len(b) < 4 + length
             THEN [res |-> "need", item |-> NoItem, src |-> b]
             ELSE IF b[5] \notin 0 .. 8
             THEN [res |-> "bad_type", item |-> NoItem, src |-> b]
             ELSE [res |-> "some",
                   item |-> [typ |-> TypeNames[b[5] + 1],
                             payload |-> IF length > 1
                                         THEN SubSeq(b, 6, 4 + length)
                                         ELSE <<>>],
                   src |-> Advance(b, 4 + length)]

\* MessageFramer::encode (lines 422-444)
Encode(item, d) ==
    IF Len(item.payload) + 1 > MAX
    THEN [res |-> "too_large", dst |-> d]
    ELSE [res |-> "ok",
          dst |-> d \o Be4(Len(item.payload) + 1) \o <<TagOf(item.typ)>>
                    \o item.payload]

\* ------------------------------------------------------- codec inputs
\* a payload of n bytes that differ from their neighbours
Pattern(n) == [i \in 1 .. n |-> i % 251]

\* the messages of a stream that arrives in pieces
Items == [typ : MessageTypes, payload : {Pattern(n) : n \in 0 .. MaxPayload}]

\* the largest message encode accepts and the smallest it refuses
BoundaryItems ==
    [typ : MessageTypes, payload : {Pattern(MAX - 1), Pattern(MAX)}]

KeepAliveItem == [typ |-> "KeepAlive", payload |-> <<>>]

\* bytes that no encode produced: headers that declare MAX + 1 and 2^31 - 1
\* bytes, followed by one byte (which may or may not have arrived when
\* decode runs), and a frame with tag 9
RawItems ==
    {[typ |-> "Raw", payload |-> h \o <<7>>] :
        h \in {<<0, 1, 0, 1>>, <<127, 255, 255, 255>>}}
    \cup {[typ |-> "Raw", payload |-> <<0, 0, 0, 1, 9>>]}

\* the message type that follows the first item of a stream; the first
\* message has any type, and messages of one type differ in their payloads
StreamTypes == {"Piece"}

\* the writer is ahead of the reader: a stream is written before its first
\* byte arrives, and nothing is put on it after raw bytes or after a
\* boundary message
StreamEnded ==
    \/ src # <<>>
    \/ delivered # <<>>
    \/ dec # "idle"
    \/ /\ stream # <<>>
       /\ \/ stream[Len(stream)].typ = "Raw"
          \/ Len(stream[Len(stream)].payload) > MaxPayload

\* the sizes in which the bytes in flight may arrive: any split of a short
\* stream, a boundary message in one piece
ArriveSizes ==
    IF Len(dst) > MaxFrames * (5 + MaxPayload)
    THEN {Len(dst)}
    ELSE 1 .. Len(dst)

InitCodec ==
    /\ IdleCodec
    /\ IdleDownload
    /\ IdleNew
    /\ IdleBits
    /\ IdleLru
    /\ IdleLater

\* the writer encodes one message
EncodeStep(item) ==
    /\ Len(stream) < MaxFrames
    /\ ~StreamEnded
    /\ Len(item.payload) > MaxPayload => stream = <<>>
    /\ item.typ \notin StreamTypes => stream = <<>>
    /\ LET r == Encode(item, dst)
       IN  /\ enc' = r.res
           /\ dst' = r.dst
           /\ stream' = IF r.res = "ok" THEN Append(stream, item) ELSE stream
    /\ UNCHANGED <<src, delivered, dec, downloadVars, newVars, bitsVars, lruVars,
                   laterVars>>

\* the writer sends a keep-alive: a length prefix of zero
KeepAlive ==
    /\ Len(stream) < MaxFrames
    /\ ~StreamEnded
    /\ dst' = dst \o <<0, 0, 0, 0>>
    /\ stream' = Append(stream, KeepAliveItem)
    /\ UNCHANGED <<src, delivered, enc, dec, downloadVars, newVars, bitsVars, lruVars,
                   laterVars>>

\* the writer sends bytes that are not a frame
RawSend(item) ==
    /\ Len(stream) < MaxFrames
    /\ ~StreamEnded
    /\ dst' = dst \o item.payload
    /\ stream' = Append(stream, item)
    /\ UNCHANGED <<src, delivered, enc, dec, downloadVars, newVars, bitsVars, lruVars,
                   laterVars>>

\* Framed reads k more bytes into the buffer
Arrive(k) ==
    /\ dec \in {"idle", "need", "some"}
    /\ src' = src \o SubSeq(dst, 1, k)
    /\ dst' = Advance(dst, k)
    /\ dec' = "idle"
    /\ UNCHANGED <<stream, delivered, enc, downloadVars, newVars, bitsVars, lruVars,
                   laterVars>>

\* Framed calls decode on the buffer
DecodeStep ==
    /\ dec \in {"idle", "some"}
    /\ LET r == Decode(src)
       IN  /\ dec' = r.res
           /\ src' = r.src
           /\ delivered' = IF r.res = "some"
                           THEN Append(delivered, r.item)
                           ELSE delivered
    /\ UNCHANGED <<dst, stream, enc, downloadVars, newVars, bitsVars, lruVars,
                   laterVars>>

NextCodec ==
    \/ \E item \in Items \cup BoundaryItems : EncodeStep(item)
    \/ KeepAlive
    \/ \E item \in RawItems : RawSend(item)
    \/ \E k \in ArriveSizes : Arrive(k)
    \/ DecodeStep

SpecCodec == InitCodec /\ [][NextCodec]_vars


\* ------------------------------------------------- Bitfield and BitVec
\* 0b1000_0000 >> bit_i
Mask(bit_i) == 2 ^ (7 - bit_i)

\* byte & mask != 0, for a mask of one bit
TestMask(byte, mask) == (byte \div mask) % 2 = 1

\* byte | mask, byte & !mask and byte ^ mask, for a mask of one bit
OrMask(byte, mask) == IF TestMask(byte, mask) THEN byte ELSE byte + mask
AndNotMask(byte, mask) == IF TestMask(byte, mask) THEN byte - mask ELSE byte
XorMask(byte, mask) ==
    IF TestMask(byte, mask) THEN byte - mask ELSE byte + mask

\* Bitfield::new and BitVec::new (lines 11-17 of both files)
BitsNew(n_bits) ==
    [bytes |-> [k \in 1 .. ((n_bits + 8 - 1) \div 8) |-> 0], n_bits |-> n_bits]

\* Bitfield::has and BitVec::has
Has(b, index) ==
    LET byte_i == index \div 8
        bit_i == index % 8
    IN  IF byte_i >= Len(b.bytes)
        THEN FALSE
        ELSE TestMask(b.bytes[byte_i + 1], Mask(bit_i))

\* the bytes after self.bytes[byte_i] was replaced by op(byte, mask)
WithByte(b, index, op(_, _)) ==
    LET byte_i == index \div 8
        bit_i == index % 8
    IN  [b EXCEPT !.bytes[byte_i + 1] = op(@, Mask(bit_i))]

\* the indices byte_i * 8 + bit_i in the order in which the two nested
\* iterators of set_bits and unset_bits visit them
Visited(b) == [k \in 1 .. (8 * Len(b.bytes)) |-> k - 1]

\* Bitfield::set_bits (bitfield.rs 48-62) and BitVec::ones (bit_vec.rs 68-82)
SetBits(b) == SelectSeq(Visited(b), LAMBDA index : Has(b, index))

\* unset_bits without the bound on the index
UnsetBitsUnbounded(b) == SelectSeq(Visited(b), LAMBDA index : ~Has(b, index))

\* Bitfield::unset_bits (bitfield.rs 64-75), BitVec::zeros (bit_vec.rs 84-95)
UnsetBits(b) ==
    SelectSeq(Visited(b), LAMBDA index : index < b.n_bits /\ ~Has(b, index))

\* the indices that the calls are made with: inside the capacity, in the
\* padding of the last byte, and past the last byte
Indices == 0 .. (MaxBits + 8)

\* ---- Bitfield
InitBitfield ==
    /\ \E n \in 0 .. MaxBits : bfield = BitsNew(n)
    /\ bfield_set = {}
    /\ bfield_ret = "none"
    /\ bv = NoBits
    /\ bv_ret = "none"
    /\ IdleDownload
    /\ IdleNew
    /\ IdleCodec
    /\ IdleLru
    /\ IdleLater

\* Bitfield::set (bitfield.rs 26-34)
BitfieldSet(index) ==
    /\ IF index >= bfield.n_bits
       THEN /\ bfield_ret' = "bit index is out of range"
            /\ UNCHANGED <<bfield, bfield_set>>
       ELSE /\ bfield' = WithByte(bfield, index, OrMask)
            /\ bfield_set' = bfield_set \cup {index}
            /\ bfield_ret' = "ok"
    /\ UNCHANGED <<bv, bv_ret, downloadVars, newVars, codecVars, lruVars,
                   laterVars>>

NextBitfield == \E index \in Indices : BitfieldSet(index)

SpecBitfield == InitBitfield /\ [][NextBitfield]_vars

\* ---- BitVec
InitBitVec ==
    /\ \E n \in 0 .. MaxBits : bv = BitsNew(n)
    /\ bv_ret = "none"
    /\ bfield = NoBits
    /\ bfield_set = {}
    /\ bfield_ret = "none"
    /\ IdleDownload
    /\ IdleNew
    /\ IdleCodec
    /\ IdleLru
    /\ IdleLater

\* BitVec::set (bit_vec.rs 26-34)
BitVecSet(index) ==
    /\ IF index >= bv.n_bits
       THEN /\ bv_ret' = "bit index is out of range"
            /\ UNCHANGED bv
       ELSE /\ bv' = WithByte(bv, index, OrMask)
            /\ bv_ret' = "ok"
    /\ UNCHANGED <<bfield, bfield_set, bfield_ret, downloadVars, newVars,
                   codecVars, lruVars,
                   laterVars>>

\* BitVec::unset (bit_vec.rs 36-44)
BitVecUnset(index) ==
    /\ IF index >= bv.n_bits
       THEN /\ bv_ret' = "bit index is out of range"
            /\ UNCHANGED bv
       ELSE /\ bv' = WithByte(bv, index, AndNotMask)
            /\ bv_ret' = "ok"
    /\ UNCHANGED <<bfield, bfield_set, bfield_ret, downloadVars, newVars,
                   codecVars, lruVars,
                   laterVars>>

\* toggle that tests the index against the bytes and not against n_bits
BitVecToggleAnyBit(index) ==
    /\ IF index \div 8 >= Len(bv.bytes)
       THEN /\ bv_ret' = "bit index is out of range"
            /\ UNCHANGED bv
       ELSE /\ bv' = WithByte(bv, index, XorMask)
            /\ bv_ret' = "ok"
    /\ UNCHANGED <<bfield, bfield_set, bfield_ret, downloadVars, newVars,
                   codecVars, lruVars,
                   laterVars>>

\* BitVec::toggle (bit_vec.rs 46-54)
BitVecToggle(index) ==
    /\ IF index >= bv.n_bits
       THEN /\ bv_ret' = "bit index is out of range"
            /\ UNCHANGED bv
       ELSE /\ bv' = WithByte(bv, index, XorMask)
            /\ bv_ret' = "ok"
    /\ UNCHANGED <<bfield, bfield_set, bfield_ret, downloadVars, newVars,
                   codecVars, lruVars,
                   laterVars>>

NextBitVec ==
    \/ \E index \in Indices : BitVecSet(index)
    \/ \E index \in Indices : BitVecUnset(index)
    \/ \E index \in Indices : BitVecToggle(index)

SpecBitVec == InitBitVec /\ [][NextBitVec]_vars


\* ------------------------------------------------------------ LruCache
\* lru_cache.rs. A node lives at an address of mem; a freed address leaves
\* the domain of mem, so that a read through a dangling pointer is an error.
Keys == 0..MaxKey
\* the cache moves values and never looks into them: two tell the value
\* stored from the value passed in
Vals == {0, 1}
Caps == 1..MaxCap
\* the head and tail sentinels and one node per entry
Addrs == 1..(MaxCap + 2)

\* MaybeUninit::uninit()
Uninit == -1

\* Box::into_raw(Box::new(..)): the lowest free address
Alloc(m) ==
    CHOOSE a \in Addrs \ DOMAIN m : \A b \in Addrs \ DOMAIN m : a <= b

Store(m, a, node) == [b \in DOMAIN m \cup {a} |-> IF b = a THEN node ELSE m[b]]

\* Box::from_raw(..) dropped or moved out of
Free(m, a) == [b \in DOMAIN m \ {a} |-> m[b]]

NodeNew(key, val) == [key |-> key, val |-> val, prev |-> Null, next |-> Null]

NodeUninit == [key |-> Uninit, val |-> Uninit, prev |-> Null, next |-> Null]

\* return values
None == [tag |-> "None", k |-> Null, v |-> Null]
SomeV(v) == [tag |-> "Some", k |-> Null, v |-> v]
SomeKV(k, v) == [tag |-> "Some", k |-> k, v |-> v]
Bool(b) == [tag |-> "bool", k |-> Null, v |-> IF b THEN 1 ELSE 0]
Unit == [tag |-> "unit", k |-> Null, v |-> Null]
\* a reference to a value
Ref(v) == [tag |-> "ref", k |-> Null, v |-> v]

\* HashMap::get / remove / insert on the map of the cache
MapGet(c, k) == IF k \in DOMAIN c.map THEN c.map[k] ELSE Null

MapRemove(c, k) == [c EXCEPT !.map = [j \in DOMAIN c.map \ {k} |-> c.map[j]]]

MapInsert(c, k, a) ==
    [c EXCEPT !.map = [j \in DOMAIN c.map \cup {k} |->
                          IF j = k THEN a ELSE c.map[j]]]

LruLen(c) == Cardinality(DOMAIN c.map)

LruCacheNew(cap) ==
    LET head == Alloc([a \in {} |-> Null])
        m1 == Store([a \in {} |-> Null], head, NodeUninit)
        tail == Alloc(m1)
        m2 == Store(m1, tail, NodeUninit)
    IN  [cache |-> [map |-> [k \in {} |-> Null], cap |-> cap,
                    head |-> head, tail |-> tail],
         mem |-> [[m2 EXCEPT ![head].next = tail] EXCEPT ![tail].prev = head]]

\* detach that repairs the forward links only
DetachForwardOnly(m, node) ==
    [m EXCEPT ![node.prev].next = node.next]

\* detach(node): node is the node read through the pointer, which in pop and
\* pop_entry is a copy on the stack of a node already freed
Detach(m, node) ==
    LET m1 == [m EXCEPT ![node.prev].next = node.next]
    IN  [m1 EXCEPT ![node.next].prev = node.prev]

Attach(c, m, a) ==
    LET m1 == [m EXCEPT ![a].prev = c.head]
        m2 == [m1 EXCEPT ![a].next = m1[c.head].next]
        m3 == [m2 EXCEPT ![m2[a].next].prev = a]
    IN  [m3 EXCEPT ![c.head].next = a]

AttachLast(c, m, a) ==
    LET m1 == [m EXCEPT ![a].prev = m[c.tail].prev]
        m2 == [m1 EXCEPT ![a].next = c.tail]
        m3 == [m2 EXCEPT ![m2[a].prev].next = a]
    IN  [m3 EXCEPT ![c.tail].prev = a]

\* a move to the place before tail
MoveToBack(c, m, a) == AttachLast(c, Detach(m, m[a]), a)

MoveToFront(c, m, a) == Attach(c, Detach(m, m[a]), a)

\* replace_or_create that takes the first entry of the list when full
ReplaceOrCreateEvictsFirst(c, m, k, v) ==
    IF LruLen(c) = c.cap
    THEN LET old_node_key == m[m[c.head].next].key
             old_node == c.map[old_node_key]
             m1 == [m EXCEPT ![old_node].key = k, ![old_node].val = v]
         IN  [replaced |-> SomeKV(m[old_node].key, m[old_node].val),
              node |-> old_node,
              cache |-> MapRemove(c, old_node_key),
              mem |-> Detach(m1, m1[old_node])]
    ELSE [replaced |-> None, node |-> Alloc(m), cache |-> c,
          mem |-> Store(m, Alloc(m), NodeNew(k, v))]

\* c.map[key] of an absent key is the unwrap of None
ReplaceOrCreate(c, m, k, v) ==
    IF LruLen(c) = c.cap
    THEN LET old_node_key == m[m[c.tail].prev].key
             old_node == c.map[old_node_key]
             m1 == [m EXCEPT ![old_node].key = k, ![old_node].val = v]
         IN  [replaced |-> SomeKV(m[old_node].key, m[old_node].val),
              node |-> old_node,
              cache |-> MapRemove(c, old_node_key),
              mem |-> Detach(m1, m1[old_node])]
    ELSE [replaced |-> None, node |-> Alloc(m), cache |-> c,
          mem |-> Store(m, Alloc(m), NodeNew(k, v))]

\* the second arm of capturing_put and of get_or_insert
InsertNew(c, m, k, v) ==
    LET r == ReplaceOrCreate(c, m, k, v)
        m1 == Attach(r.cache, r.mem, r.node)
    IN  [replaced |-> r.replaced,
         cache |-> MapInsert(r.cache, m1[r.node].key, r.node),
         mem |-> m1]

CapturingPut(c, m, k, v, capture) ==
    LET node_ptr == MapGet(c, k)
    IN  IF node_ptr # Null
        THEN [cache |-> c,
              mem |-> MoveToFront(c, [m EXCEPT ![node_ptr].val = v], node_ptr),
              ret |-> SomeKV(k, m[node_ptr].val)]
        ELSE LET r == InsertNew(c, m, k, v)
             IN  [cache |-> r.cache, mem |-> r.mem,
                  ret |-> IF capture THEN r.replaced ELSE None]

RemoveFirst(c, m) ==
    LET next == m[c.head].next
    IN  IF next # c.tail
        THEN LET old_node == c.map[m[next].key]
             IN  [cache |-> MapRemove(c, m[next].key),
                  mem |-> Detach(m, m[old_node]),
                  node |-> old_node]
        ELSE [cache |-> c, mem |-> m, node |-> Null]

RemoveLast(c, m) ==
    LET prev == m[c.tail].prev
    IN  IF prev # c.head
        THEN LET old_node == c.map[m[prev].key]
             IN  [cache |-> MapRemove(c, m[prev].key),
                  mem |-> Detach(m, m[old_node]),
                  node |-> old_node]
        ELSE [cache |-> c, mem |-> m, node |-> Null]

\* pop_lru and pop_mru after remove_last / remove_first returned r
Unbox(r) ==
    IF r.node = Null
    THEN [cache |-> r.cache, mem |-> r.mem, ret |-> None]
    ELSE [cache |-> r.cache, mem |-> Free(r.mem, r.node),
          ret |-> SomeKV(r.mem[r.node].key, r.mem[r.node].val)]

LruPopLru(c, m) == Unbox(RemoveLast(c, m))

LruPopMru(c, m) == Unbox(RemoveFirst(c, m))

\* the loop of resize
RECURSIVE PopWhileOver(_, _, _)
PopWhileOver(c, m, cap) ==
    IF LruLen(c) > cap
    THEN LET r == LruPopLru(c, m) IN PopWhileOver(r.cache, r.mem, cap)
    ELSE [cache |-> c, mem |-> m]

\* the loop of clear
RECURSIVE PopWhileSome(_, _)
PopWhileSome(c, m) ==
    LET r == LruPopLru(c, m)
    IN  IF r.ret # None THEN PopWhileSome(r.cache, r.mem)
        ELSE [cache |-> r.cache, mem |-> r.mem]

Called(op, k, v, c, m, ret) ==
    /\ cache' = c
    /\ mem' = m
    /\ lru_call' = [op |-> op, k |-> k, v |-> v]
    /\ lru_ret' = ret
    /\ lru_seen' = <<>>
    /\ UNCHANGED <<downloadVars, newVars, codecVars, bitsVars, laterVars>>

InitLru ==
    /\ \E cap \in Caps :
          /\ cache = LruCacheNew(cap).cache
          /\ mem = LruCacheNew(cap).mem
          /\ lru_call = [op |-> "new", k |-> Null, v |-> cap]
    /\ lru_ret = NoRet
    /\ lru_seen = <<>>
    /\ IdleDownload
    /\ IdleNew
    /\ IdleCodec
    /\ IdleBits
    /\ IdleLater

LruPut(k, v) ==
    LET r == CapturingPut(cache, mem, k, v, FALSE)
    IN  Called("put", k, v, r.cache, r.mem,
               IF r.ret = None THEN None ELSE SomeV(r.ret.v))

LruPush(k, v) ==
    LET r == CapturingPut(cache, mem, k, v, TRUE)
    IN  Called("push", k, v, r.cache, r.mem, r.ret)

LruGet(k) ==
    LET node_ptr == MapGet(cache, k)
    IN  IF node_ptr # Null
        THEN Called("get", k, Null, cache, MoveToFront(cache, mem, node_ptr),
                    SomeV(mem[node_ptr].val))
        ELSE Called("get", k, Null, cache, mem, None)

\* f() returns v
LruGetOrInsert(k, v) ==
    LET node_ptr == MapGet(cache, k)
    IN  IF node_ptr # Null
        THEN Called("get_or_insert", k, v, cache,
                    MoveToFront(cache, mem, node_ptr),
                    Ref(mem[node_ptr].val))
        ELSE LET r == InsertNew(cache, mem, k, v)
             IN  Called("get_or_insert", k, v, r.cache, r.mem,
                        Ref(r.mem[MapGet(r.cache, k)].val))

LruPeek(k) ==
    LET node_ptr == MapGet(cache, k)
    IN  Called("peek", k, Null, cache, mem,
               IF node_ptr # Null THEN SomeV(mem[node_ptr].val) ELSE None)

LruContains(k) ==
    Called("contains", k, Null, cache, mem, Bool(k \in DOMAIN cache.map))

LruPop(k) ==
    LET old_node == MapGet(cache, k)
    IN  IF old_node # Null
        THEN Called("pop", k, Null, MapRemove(cache, k),
                    Detach(Free(mem, old_node), mem[old_node]),
                    SomeV(mem[old_node].val))
        ELSE Called("pop", k, Null, cache, mem, None)

LruPopEntry(k) ==
    LET old_node == MapGet(cache, k)
    IN  IF old_node # Null
        THEN Called("pop_entry", k, Null, MapRemove(cache, k),
                    Detach(Free(mem, old_node), mem[old_node]),
                    SomeKV(mem[old_node].key, mem[old_node].val))
        ELSE Called("pop_entry", k, Null, cache, mem, None)

PopLru ==
    LET r == LruPopLru(cache, mem)
    IN  Called("pop_lru", Null, Null, r.cache, r.mem, r.ret)

PopMru ==
    LET r == LruPopMru(cache, mem)
    IN  Called("pop_mru", Null, Null, r.cache, r.mem, r.ret)

Promote(k) ==
    LET node_ptr == MapGet(cache, k)
    IN  IF node_ptr # Null
        THEN Called("promote", k, Null, cache,
                    Attach(cache, Detach(mem, mem[node_ptr]), node_ptr),
                    Bool(TRUE))
        ELSE Called("promote", k, Null, cache, mem, Bool(FALSE))

Demote(k) ==
    LET node_ptr == MapGet(cache, k)
    IN  IF node_ptr # Null
        THEN Called("demote", k, Null, cache,
                    AttachLast(cache, Detach(mem, mem[node_ptr]), node_ptr),
                    Bool(TRUE))
        ELSE Called("demote", k, Null, cache, mem, Bool(FALSE))

Resize(cap) ==
    IF cap = cache.cap
    THEN Called("resize", Null, cap, cache, mem, Unit)
    ELSE LET r == PopWhileOver(cache, mem, cap)
         IN  Called("resize", Null, cap, [r.cache EXCEPT !.cap = cap],
                    r.mem, Unit)

Clear ==
    LET r == PopWhileSome(cache, mem)
    IN  Called("clear", Null, Null, r.cache, r.mem, Unit)

\* iter() and iter_mut()
IterNew(c, m) == [ptr |-> m[c.head].next, end |-> m[c.tail].prev, len |-> LruLen(c)]

IterNext(it, m) ==
    IF it.len = 0 THEN [it |-> it, item |-> None]
    ELSE [it |-> [it EXCEPT !.ptr = m[it.ptr].next, !.len = @ - 1],
          item |-> SomeKV(m[it.ptr].key, m[it.ptr].val)]

\* next_back that steps end back
IterNextBackStepsEnd(it, m) ==
    IF it.len = 0 THEN [it |-> it, item |-> None]
    ELSE [it |-> [it EXCEPT !.end = m[it.end].prev, !.len = @ - 1],
          item |-> SomeKV(m[it.end].key, m[it.end].val)]

\* next_back reads the entry at end and then steps ptr back, leaving end
\* where it is.  The prev of head is null: the read of (*self.ptr).prev
\* through it is a read through a null pointer, which ends the process
Crash == [tag |-> "crash", k |-> Null, v |-> Null]

IterNextBack(it, m) ==
    IF it.len = 0 THEN [it |-> it, item |-> None]
    ELSE IF it.ptr = Null THEN [it |-> it, item |-> Crash]
    ELSE [it |-> [it EXCEPT !.ptr = m[it.ptr].prev, !.len = @ - 1],
          item |-> SomeKV(m[it.end].key, m[it.end].val)]

\* for (key, val) in it
RECURSIVE ForEach(_, _)
ForEach(it, m) ==
    LET r == IterNext(it, m)
    IN  IF r.item = None THEN <<>>
        ELSE <<<<r.item.k, r.item.v>>>> \o ForEach(r.it, m)

\* for (key, val) in it.rev(): the entries yielded and whether the loop ran
\* to its end
RECURSIVE ForEachRev(_, _)
ForEachRev(it, m) ==
    LET r == IterNextBack(it, m)
    IN  IF r.item = None THEN [seen |-> <<>>, ret |-> Unit]
        ELSE IF r.item = Crash THEN [seen |-> <<>>, ret |-> Crash]
        ELSE LET rest == ForEachRev(r.it, m)
             IN  [seen |-> <<<<r.item.k, r.item.v>>>> \o rest.seen,
                  ret |-> rest.ret]

\* the body of the loop of clone, over the entries the iterator yielded
RECURSIVE PushAll(_, _, _)
PushAll(c, m, seen) ==
    IF seen = <<>> THEN [cache |-> c, mem |-> m]
    ELSE LET r == CapturingPut(c, m, seen[1][1], seen[1][2], TRUE)
         IN  PushAll(r.cache, r.mem, Tail(seen))

\* the heap of the clone is drawn apart from the heap of the cache
LruClone(c, m) ==
    LET new_lru == LruCacheNew(c.cap)
        r == ForEachRev(IterNew(c, m), m)
    IN  [new_lru |-> PushAll(new_lru.cache, new_lru.mem, r.seen),
         ret |-> r.ret]

Iterated(op, ret, seen) ==
    /\ lru_call' = [op |-> op, k |-> Null, v |-> Null]
    /\ lru_ret' = ret
    /\ lru_seen' = seen
    /\ UNCHANGED <<cache, mem, downloadVars, newVars, codecVars, bitsVars,
                   laterVars>>

\* cache.iter() run to its end
Iterate == Iterated("iter", Unit, ForEach(IterNew(cache, mem), mem))

\* cache.iter().rev() run to its end
IterateRev ==
    LET r == ForEachRev(IterNew(cache, mem), mem)
    IN  Iterated("iter_rev", r.ret, r.seen)

\* cache.clone(), and the clone iterated
Clone ==
    LET r == LruClone(cache, mem)
    IN  Iterated("clone", r.ret,
                 ForEach(IterNew(r.new_lru.cache, r.new_lru.mem),
                         r.new_lru.mem))

NextLru ==
    \/ \E k \in Keys, v \in Vals : LruPut(k, v)
    \/ \E k \in Keys, v \in Vals : LruPush(k, v)
    \/ \E k \in Keys : LruGet(k)
    \/ \E k \in Keys, v \in Vals : LruGetOrInsert(k, v)
    \/ \E k \in Keys : LruPeek(k)
    \/ \E k \in Keys : LruContains(k)
    \/ \E k \in Keys : LruPop(k)
    \/ \E k \in Keys : LruPopEntry(k)
    \/ PopLru
    \/ PopMru
    \/ \E k \in Keys : Promote(k)
    \/ \E k \in Keys : Demote(k)
    \/ \E cap \in Caps : Resize(cap)
    \/ Clear
    \/ Iterate
    \/ IterateRev
    \/ Clone

SpecLru == InitLru /\ [][NextLru]_vars


\* ------------------------------------------------ Torrent::run, heartbeat
\* torrent.rs.  Time is not counted: a sleep is a place of the task, with the
\* seconds it sleeps in interval or backoff.
\* Semaphore::new(5): the permits of max_peers, none of which is ever acquired
max_peers == 5

PeerAddrs == 0 .. (MaxAddrs - 1)

\* what query_tracker can return: an error, or an interval and a peer list
Responses ==
    {NoResp} \cup [ok : {TRUE}, interval : 1 .. MaxInterval, peers : SUBSET PeerAddrs]

\* Torrent::new, and run up to its first notified().await with the heartbeat
\* task spawned
InitTorrent ==
    /\ hb_pc = "sleep_interval"
    /\ interval = 0
    /\ backoff = 0
    /\ resp = NoResp
    /\ fails = 0
    /\ metadata_lock = "free"
    /\ peer_addrs_lock = "free"
    /\ peers_lock = "free"
    /\ peer_addrs = {}
    /\ notify = FALSE
    /\ run_pc = "wait"
    /\ pending = {}
    /\ inflight = {}
    /\ n_peers = 0
    /\ IdleDownload
    /\ IdleNew
    /\ IdleCodec
    /\ IdleBits
    /\ IdleLru
    /\ IdleConn
    /\ IdleFiles

runVars == <<run_pc, pending, inflight, n_peers, peers_lock>>
hbVars == <<hb_pc, interval, backoff, resp, fails>>
notTorrent ==
    <<downloadVars, newVars, codecVars, bitsVars, lruVars, connVars, filesVars>>

\* lines 108-109: sleep(interval) is over
HbSleepInterval ==
    /\ hb_pc = "sleep_interval"
    /\ backoff' = 1
    /\ hb_pc' = "lock_metadata"
    /\ UNCHANGED <<interval, resp, fails, metadata_lock, peer_addrs_lock,
                   peer_addrs, notify, runVars, notTorrent>>

\* line 111
HbLockMetadata ==
    /\ hb_pc = "lock_metadata"
    /\ metadata_lock = "free"
    /\ metadata_lock' = "heartbeat"
    /\ hb_pc' = "query"
    /\ UNCHANGED <<interval, backoff, resp, fails, peer_addrs_lock, peer_addrs,
                   notify, runVars, notTorrent>>

\* a heartbeat that keeps the guard of metadata when the announce succeeded
HbQueryKeepsMetadata(r) ==
    /\ hb_pc = "query"
    /\ r.ok \/ fails < MaxFails
    /\ resp' = r
    /\ IF r.ok
       THEN /\ interval' = r.interval
            /\ hb_pc' = "lock_peer_addrs"
            /\ fails' = 0
            /\ UNCHANGED metadata_lock
       ELSE /\ hb_pc' = "sleep_backoff"
            /\ fails' = fails + 1
            /\ metadata_lock' = "free"
            /\ UNCHANGED interval
    /\ UNCHANGED <<backoff, peer_addrs_lock, peer_addrs, notify, runVars,
                   notTorrent>>

\* lines 112-115: query_tracker returns r and the guard of metadata is
\* dropped
HbQuery(r) ==
    /\ hb_pc = "query"
    /\ r.ok \/ fails < MaxFails
    /\ resp' = r
    /\ metadata_lock' = "free"
    /\ IF r.ok
       THEN /\ interval' = r.interval
            /\ hb_pc' = "lock_peer_addrs"
            /\ fails' = 0
       ELSE /\ hb_pc' = "sleep_backoff"
            /\ fails' = fails + 1
            /\ UNCHANGED interval
    /\ UNCHANGED <<backoff, peer_addrs_lock, peer_addrs, notify, runVars,
                   notTorrent>>

\* a heartbeat that adds the addresses of the response to the ones it has
HbStoreMerges ==
    /\ hb_pc = "store"
    /\ peer_addrs' = peer_addrs \cup resp.peers
    /\ notify' = TRUE
    /\ peer_addrs_lock' = "free"
    /\ hb_pc' = "sleep_interval"
    /\ UNCHANGED <<interval, backoff, resp, fails, metadata_lock, runVars,
                   notTorrent>>

\* line 116: the lock of peer_addrs is taken
HbLockPeerAddrs ==
    /\ hb_pc = "lock_peer_addrs"
    /\ peer_addrs_lock = "free"
    /\ peer_addrs_lock' = "heartbeat"
    /\ hb_pc' = "store"
    /\ UNCHANGED <<interval, backoff, resp, fails, metadata_lock, peer_addrs,
                   notify, runVars, notTorrent>>

\* lines 117-119: the addresses are replaced, the orchestrator is notified,
\* and break drops the guard
HbStore ==
    /\ hb_pc = "store"
    /\ peer_addrs' = resp.peers
    /\ notify' = TRUE
    /\ peer_addrs_lock' = "free"
    /\ hb_pc' = "sleep_interval"
    /\ UNCHANGED <<interval, backoff, resp, fails, metadata_lock, runVars,
                   notTorrent>>

\* a heartbeat whose wait grows by one second with each failure
HbSleepBackoffLinear ==
    /\ hb_pc = "sleep_backoff"
    /\ backoff' = backoff + 1
    /\ hb_pc' = "lock_metadata"
    /\ UNCHANGED <<interval, resp, fails, metadata_lock, peer_addrs_lock,
                   peer_addrs, notify, runVars, notTorrent>>

\* lines 121-122: sleep(backoff) is over
HbSleepBackoff ==
    /\ hb_pc = "sleep_backoff"
    /\ backoff' = backoff * 2
    /\ hb_pc' = "lock_metadata"
    /\ UNCHANGED <<interval, resp, fails, metadata_lock, peer_addrs_lock,
                   peer_addrs, notify, runVars, notTorrent>>

\* line 62: notified() takes the permit
RunNotified ==
    /\ run_pc = "wait"
    /\ notify
    /\ notify' = FALSE
    /\ run_pc' = "lock_peer_addrs"
    /\ UNCHANGED <<hbVars, metadata_lock, peer_addrs_lock, peers_lock,
                   peer_addrs, pending, inflight, n_peers, notTorrent>>

\* lines 63-69: the guard of peer_addrs lives to the end of the loop body
RunLockPeerAddrs ==
    /\ run_pc = "lock_peer_addrs"
    /\ peer_addrs_lock = "free"
    /\ peer_addrs_lock' = "run"
    /\ pending' = peer_addrs
    /\ inflight' = {}
    /\ run_pc' = "connect"
    /\ UNCHANGED <<hbVars, metadata_lock, peers_lock, peer_addrs, notify,
                   n_peers, notTorrent>>

\* buffer_unordered(self.max_peers.available_permits()): no permit is ever
\* acquired, so the buffer holds up to max_peers futures; the addresses are
\* taken in the order of the Vec
RunStart ==
    /\ run_pc = "connect"
    /\ pending # {}
    /\ Cardinality(inflight) < max_peers
    /\ LET a == CHOOSE x \in pending : \A y \in pending : x <= y
       IN  /\ pending' = pending \ {a}
           /\ inflight' = inflight \cup {a}
    /\ UNCHANGED <<hbVars, metadata_lock, peer_addrs_lock, peers_lock,
                   peer_addrs, notify, run_pc, n_peers, notTorrent>>

\* lines 70-78: Peer::new of address a is done; a session is pushed under
\* the lock of peers, which is dropped at the end of the arm
RunConnected(a, ok) ==
    /\ run_pc = "connect"
    /\ pending = {} \/ Cardinality(inflight) = max_peers
    /\ a \in inflight
    /\ inflight' = inflight \ {a}
    /\ IF ok
       THEN /\ n_peers < MaxSessions
            /\ peers_lock = "free"
            /\ n_peers' = n_peers + 1
       ELSE UNCHANGED n_peers
    /\ UNCHANGED <<hbVars, metadata_lock, peer_addrs_lock, peers_lock,
                   peer_addrs, notify, run_pc, pending, notTorrent>>

\* lines 79-84: the stream has ended
RunLockMetadata ==
    /\ run_pc = "connect"
    /\ pending = {}
    /\ inflight = {}
    /\ metadata_lock = "free"
    /\ peers_lock = "free"
    /\ metadata_lock' = "run"
    /\ peers_lock' = "run"
    /\ run_pc' = "pieces"
    /\ UNCHANGED <<hbVars, peer_addrs_lock, peer_addrs, notify, pending,
                   inflight, n_peers, notTorrent>>

\* lines 85-94: the heaps are filled and dropped with the three guards at
\* the end of the loop body
RunPieces ==
    /\ run_pc = "pieces"
    /\ metadata_lock' = "free"
    /\ peers_lock' = "free"
    /\ peer_addrs_lock' = "free"
    /\ run_pc' = "wait"
    /\ UNCHANGED <<hbVars, peer_addrs, notify, pending, inflight, n_peers,
                   notTorrent>>

NextTorrent ==
    \/ HbSleepInterval
    \/ HbLockMetadata
    \/ \E r \in Responses : HbQuery(r)
    \/ HbLockPeerAddrs
    \/ HbStore
    \/ HbSleepBackoff
    \/ RunNotified
    \/ RunLockPeerAddrs
    \/ RunStart
    \/ \E a \in PeerAddrs, ok \in BOOLEAN : RunConnected(a, ok)
    \/ RunLockMetadata
    \/ RunPieces

SpecTorrent == InitTorrent /\ [][NextTorrent]_vars


\* ------------------------------------------- download::all, lines 20-39
\* The sessions are opened.  attempts[i] is what has become of the i-th
\* address of the tracker response.
NotDownload ==
    <<downloadVars, newVars, codecVars, bitsVars, lruVars, torrentVars,
      filesVars>>

InFlight == {i \in DOMAIN attempts : attempts[i] = "inflight"}

Pending == {i \in DOMAIN attempts : attempts[i] = "pending"}

\* lines 20-27: the tracker has answered with n addresses
InitConn ==
    /\ conn_pc = "connect"
    /\ \E n \in 0 .. MaxConnAddrs : attempts = [i \in 1 .. n |-> "pending"]
    /\ conn_peers = <<>>
    /\ conn_log = {}
    /\ IdleDownload
    /\ IdleNew
    /\ IdleCodec
    /\ IdleBits
    /\ IdleLru
    /\ IdleTorrent
    /\ IdleFiles

\* buffer_unordered(5), line 25: a poll of the stream first starts the next
\* address while fewer than 5 futures are in the buffer
ConnStart ==
    /\ conn_pc = "connect"
    /\ Pending # {}
    /\ Cardinality(InFlight) < 5
    /\ LET i == CHOOSE x \in Pending : \A y \in Pending : x <= y
       IN  attempts' = [attempts EXCEPT ![i] = "inflight"]
    /\ UNCHANGED <<conn_pc, conn_peers, conn_log, NotDownload>>

\* a loop that goes on after the fifth session
ConnDoneNoBreak(i, ok) ==
    /\ conn_pc = "connect"
    /\ Pending = {} \/ Cardinality(InFlight) = 5
    /\ i \in InFlight
    /\ IF ok
       THEN /\ conn_peers' = Append(conn_peers, i)
            /\ attempts' = [attempts EXCEPT ![i] = "ok"]
            /\ UNCHANGED <<conn_pc, conn_log>>
       ELSE /\ attempts' = [attempts EXCEPT ![i] = "err"]
            /\ conn_log' = conn_log \cup {i}
            /\ UNCHANGED <<conn_pc, conn_peers>>
    /\ UNCHANGED NotDownload

\* lines 28-39: Peer::new of the i-th address is done; the fifth session
\* ends the loop, and drop(stream) drops the futures still in the buffer
ConnDone(i, ok) ==
    /\ conn_pc = "connect"
    /\ Pending = {} \/ Cardinality(InFlight) = 5
    /\ i \in InFlight
    /\ IF ok
       THEN /\ conn_peers' = Append(conn_peers, i)
            /\ IF Len(conn_peers') >= 5
               THEN /\ conn_pc' = "done"
                    /\ attempts' =
                         [j \in DOMAIN attempts |->
                            IF j = i THEN "ok"
                            ELSE IF attempts[j] = "inflight" THEN "dropped"
                            ELSE attempts[j]]
               ELSE /\ attempts' = [attempts EXCEPT ![i] = "ok"]
                    /\ UNCHANGED conn_pc
            /\ UNCHANGED conn_log
       ELSE /\ attempts' = [attempts EXCEPT ![i] = "err"]
            /\ conn_log' = conn_log \cup {i}
            /\ UNCHANGED <<conn_pc, conn_peers>>
    /\ UNCHANGED NotDownload

\* line 28: the stream has ended
ConnEnd ==
    /\ conn_pc = "connect"
    /\ Pending = {}
    /\ InFlight = {}
    /\ conn_pc' = "done"
    /\ UNCHANGED <<attempts, conn_peers, conn_log, NotDownload>>

NextConn ==
    \/ ConnStart
    \/ \E i \in 1 .. MaxConnAddrs, ok \in BOOLEAN : ConnDone(i, ok)
    \/ ConnEnd

SpecConn == InitConn /\ [][NextConn]_vars


\* -------------------------------------------- Downloaded, DownloadedIter
\* download.rs, lines 177-216.  A file is its length; dl_out is what the
\* iterator has returned: the index of the file, where its slice starts in
\* bytes, and the slice.
FileLengths == 0 .. MaxFileLen

FileLists == UNION {[1 .. n -> FileLengths] : n \in 1 .. MaxFiles}

RECURSIVE LengthOfFiles(_, _)
\* the lengths of the first k files, added up
LengthOfFiles(files, k) ==
    IF k = 0 THEN 0 ELSE LengthOfFiles(files, k - 1) + files[k]

\* lines 171-174 and DownloadedIter::new: a Downloaded whose bytes are as
\* many as its files take, and an iterator at its first file
InitFiles ==
    /\ dl_files \in FileLists
    /\ dl_bytes \in [1 .. LengthOfFiles(dl_files, Len(dl_files)) -> {0, 1}]
    /\ dl_iter = [next |-> 1, offset |-> 0]
    /\ dl_out = <<>>
    /\ IdleDownload
    /\ IdleNew
    /\ IdleCodec
    /\ IdleBits
    /\ IdleLru
    /\ IdleTorrent
    /\ IdleConn

\* DownloadedIter::next, lines 210-215: offset is read and never written
DownloadedIterNext ==
    /\ dl_iter.next <= Len(dl_files)
    /\ LET file == dl_files[dl_iter.next]
           bytes == SubSeq(dl_bytes, dl_iter.offset + 1, dl_iter.offset + file)
       IN  dl_out' = Append(dl_out, [file |-> dl_iter.next,
                                     start |-> dl_iter.offset,
                                     bytes |-> bytes])
    /\ dl_iter' = [dl_iter EXCEPT !.next = @ + 1]
    /\ UNCHANGED <<dl_files, dl_bytes, downloadVars, newVars, codecVars,
                   bitsVars, lruVars, torrentVars, connVars>>

NextFiles == DownloadedIterNext

SpecFiles == InitFiles /\ [][NextFiles]_vars


\* ------------------------------- download::all with a peer that answers
\* The sessions of GoodPeers meet a remote end that takes what is sent,
\* unchokes, and answers each Request with the block asked for; between
\* these it may send Have messages.  The tokio task of download::all polls
\* the select and, through the FuturesUnordered, every session that can go
\* on, so each of these steps is taken once it stays possible.  The other
\* sessions meet what Spec lets any session meet, and nothing makes their
\* remote ends send.
GoodPeers == {p \in Peers : \A q \in Peers : p <= q}

\* the Piece message that answers the Request session p has out
Answer(p) ==
    [typ   |-> "Piece",
     n     |-> LEAD + BlockSize(block_i[p], n_blocks, piece.length),
     index |-> piece.index,
     begin |-> block_i[p] * BLOCK_MAX,
     data  |-> 1]

Unchoke == Frame("Unchoke", 0)

GoodStep(p) ==
    \/ SendInterested(p, TRUE)
    \/ \E m \in {Unchoke} \cup HaveFrames : ChokedRead(p, m)
    \/ PullJob(p, TRUE)
    \/ \E m \in {Answer(p)} \cup HaveFrames : AwaitRead(p, m)
    \/ SendDone(p)

AnyStep(p) ==
    \/ \E sent \in BOOLEAN : SendInterested(p, sent)
    \/ \E m \in StreamNext : ChokedRead(p, m)
    \/ \E sent \in BOOLEAN : PullJob(p, sent)
    \/ \E m \in StreamNext : AwaitRead(p, m)
    \/ SendDone(p)

NextLive ==
    \/ BuildHeap
    \/ PopPiece
    \/ \E p \in GoodPeers : GoodStep(p)
    \/ \E p \in Peers \ GoodPeers : AnyStep(p)
    \/ DoneRecv
    \/ CheckPiece

FairLive ==
    /\ WF_vars(BuildHeap)
    /\ WF_vars(PopPiece)
    /\ WF_vars(DoneRecv)
    /\ WF_vars(CheckPiece)
    /\ \A p \in GoodPeers :
         /\ WF_vars(SendInterested(p, TRUE))
         /\ WF_vars(ChokedRead(p, Unchoke))
         /\ WF_vars(PullJob(p, TRUE))
         /\ WF_vars(AwaitRead(p, Answer(p)))
         /\ WF_vars(SendDone(p))

SpecLive == Init /\ [][NextLive]_vars /\ FairLive


\* ============================================================== claims
\* the piece lengths of the piece-length law: L for every piece but the
\* last, ((N - 1) mod L) + 1 for the last
LawLength(t, i) ==
    IF i < NPieces(t) - 1
    THEN t.piece_length
    ELSE ((t.length - 1) % t.piece_length) + 1

RECURSIVE SumLengths(_)
SumLengths(ps) ==
    IF ps = {} THEN 0
    ELSE LET a == CHOOSE x \in ps : TRUE IN a.length + SumLengths(ps \ {a})

\* C1: rarest first: whenever a piece is popped for download, no piece
\* still in the heap has strictly fewer providers than the popped one.
C1_RarestFirst ==
    piece # NoPiece =>
        \A other \in pieces_to_download :
            Cardinality(other.peers) >= Cardinality(piece.peers)

\* C2: Piece::new gives length L to every piece i < P-1 and length
\* ((N-1) mod L) + 1 to piece P-1, so the lengths of all P pieces sum to N.
C2_PieceLengthLaw ==
    LET built == pieces_to_download \cup unavailable_pieces
    IN  /\ \A a \in built : a.length = LawLength(torrent, a.index)
        /\ Cardinality(built) = NPieces(torrent) =>
               SumLengths(built) = torrent.length

\* C3: the bytes of piece i are copied into the output only after all L_i
\* bytes were received and the SHA-1 of the assembled buffer equals H[i];
\* when the digest differs the download ends without returning a result and
\* no byte of that piece reaches the output.
C3_WrittenVerified ==
    \A w \in downloaded_pieces :
        /\ w.length = LawLength(torrent, w.index)
        /\ Len(w.data) = CeilDiv(w.length, BLOCK_MAX)
        /\ \A k \in 1 .. Len(w.data) : w.data[k] # 0
        /\ Sha1(w.length, w.data) = PieceHash(torrent, w.index)

C3_CopyStep ==
    /\ downloaded_pieces' # downloaded_pieces =>
           /\ bytes_received = piece.length
           /\ Sha1(piece.length, downloaded_blocks) = piece.hash
           /\ \E w \in downloaded_pieces' :
                  /\ downloaded_pieces' = downloaded_pieces \cup {w}
                  /\ w.index = piece.index
                  /\ w.data = downloaded_blocks
    /\ (pc = "check" /\ Sha1(piece.length, downloaded_blocks) # piece.hash) =>
           /\ pc' = "panicked"
           /\ downloaded_pieces' = downloaded_pieces

C3_MismatchNotWritten ==
    (pc = "panicked" /\ result = "assertion failed: hash == piece.hash()") =>
        \A w \in downloaded_pieces : w.index # piece.index

C3_CompletionIntegrity ==
    [](C3_WrittenVerified /\ C3_MismatchNotWritten) /\ [][C3_CopyStep]_vars

\* a verified piece was copied, and the next piece failed its digest
C3_Witness ==
    /\ pc = "panicked"
    /\ result = "assertion failed: hash == piece.hash()"
    /\ bytes_received = piece.length
    /\ downloaded_pieces # {}

\* C4: a session that has sent Request for block j and reads Choke sets its
\* choked flag, puts j back on the work queue exactly once, hands nothing to
\* the done channel and goes back to waiting for Unchoke.
Occurrences(q, j) == Cardinality({k \in 1 .. Len(q) : q[k] = j})

Requeued(p) ==
    /\ chocked'[p]
    /\ Occurrences(job_q', block_i[p]) = Occurrences(job_q, block_i[p]) + 1
    /\ Len(job_q') = Len(job_q) + 1
    /\ done_q' = done_q
    /\ msg' = msg
    /\ spc'[p] = "wait_unchoke"
    /\ pc' = "select"

C4_ChokeRequeues ==
    [][\A p \in Peers : \A m \in StreamNext :
           (AwaitRead(p, m) /\ m.typ = "Choke") => Requeued(p)]_vars

\* what holds of the code: the same, for a Choke frame without payload
C4_EmptyChokeRequeues ==
    [][\A p \in Peers : \A m \in StreamNext :
           (AwaitRead(p, m) /\ m.typ = "Choke" /\ m.n = 0) => Requeued(p)]_vars

\* C5: when a session's work loop exits with an error while it carries
\* block j (Request sent, Piece not yet received), j is put back on the
\* work queue.
C5_ErrorRequeues ==
    [][\A p \in Peers :
           (spc[p] = "await_piece" /\ spc'[p] = "exited") =>
               Occurrences(job_q', block_i[p]) = 1]_vars

\* C6: if every participating session has exited and the done channel is
\* drained while fewer than L_i bytes were received, download::all returns
\* the error "no peers left to get piece i": it neither panics nor waits.
NoPeersLeft ==
    /\ piece # NoPiece
    /\ \A p \in piece.peers : spc[p] = "exited"
    /\ done_q = <<>>
    /\ bytes_received < piece.length

C6_NoPeersLeftIsAnError ==
    /\ NoPeersLeft => pc \in {"select", "check", "returned"}
    /\ (NoPeersLeft /\ pc = "returned") => result = "no peers left to get piece"
    /\ (NoPeersLeft /\ pc = "select") => ENABLED DoneRecv

\* C7: each session has at most one outstanding Request for the piece being
\* downloaded.
C7_OneOutstandingRequest ==
    \A p \in Peers :
        /\ outstanding[p] \in {0, 1}
        /\ spc[p] = "await_piece" <=> (p \in participants /\ outstanding[p] = 1)
        /\ spc[p] = "await_piece" => (block_i[p] # NoBlock /\ msg[p] = NoMsg)

\* the only participant holds a second Request after its first was answered
C7_Witness ==
    \E p \in Peers :
        /\ pc = "select"
        /\ piece.peers = {p}
        /\ bytes_received > 0
        /\ spc[p] = "await_piece"
        /\ outstanding[p] = 1

\* C8: a misbehaving or disconnecting peer only retires its own session:
\* the session ends with an error and the orchestrator goes on.
Retired(p) ==
    /\ spc'[p] = "exited"
    /\ joined'.peer = p
    /\ joined'.res \notin {"none", "Ok"}
    /\ pc' = "select"

Misbehaves(p, m) ==
    \/ m = Closed
    \/ m.typ \in {"Choke", "Unchoke"} /\ m.n > 0
    \/ /\ spc[p] = "await_piece"
       /\ m.typ = "Piece"
       /\ \/ m.n < LEAD
          \/ /\ m.index = piece.index
             /\ m.begin = block_i[p] * BLOCK_MAX
             /\ m.n - LEAD # BlockSize(block_i[p], n_blocks, piece.length)

C8_PeerRetiresOnlyItself ==
    [][\A p \in Peers : \A m \in StreamNext :
           ((ChokedRead(p, m) \/ AwaitRead(p, m)) /\ Misbehaves(p, m))
               => Retired(p)]_vars

\* C9: if some piece has no provider among the connected sessions,
\* download::all returns an error; it does not panic and does not start
\* waiting for that piece.
C9_UnavailableIsAnError ==
    (pc # "build" /\ unavailable_pieces # {}) =>
        /\ pc = "returned"
        /\ result \notin {"none", "Ok"}

\* C10: participate ends the session with an error when it reads Choke
\* while chocked, Unchoke while not chocked, or Bitfield; reading
\* Interested, NotInterested, Request, Cancel or Have never ends the
\* session and changes neither the chocked flag nor the held block.
Ignored == {"Interested", "NotInterested", "Request", "Cancel", "Have"}

FramesOf(types) == {m \in ControlFrames \ {Closed, Invalid} : m.typ \in types}

ChokeFrames == FramesOf({"Choke"})

UnchokeFrames == FramesOf({"Unchoke"})

BitfieldFrames == FramesOf({"Bitfield"})

IgnoredFrames == FramesOf(Ignored)

\* session p keeps its place, its flag and its block, and nothing is joined
Untouched(p) ==
    /\ spc'[p] = spc[p]
    /\ joined' = joined
    /\ chocked'[p] = chocked[p]
    /\ block_i'[p] = block_i[p]
    /\ pc' = pc

\* a session reads a frame only inside one of its two read loops: ChokedRead
\* in the loop that waits for Unchoke, AwaitRead in the one that waits for a
\* Piece
C10_Step ==
    \A p \in Peers :
        /\ (pc = "select" /\ spc[p] = "wait_unchoke") =>
               /\ \A m \in ChokeFrames :
                      ChokedRead(p, m) => (chocked[p] /\ Retired(p))
               /\ \A m \in BitfieldFrames : ChokedRead(p, m) => Retired(p)
               /\ Untouched(p) \/ \A m \in IgnoredFrames : ~ChokedRead(p, m)
        /\ (pc = "select" /\ spc[p] = "await_piece") =>
               /\ \A m \in UnchokeFrames :
                      AwaitRead(p, m) => (~chocked[p] /\ Retired(p))
               /\ \A m \in BitfieldFrames : AwaitRead(p, m) => Retired(p)
               /\ Untouched(p) \/ \A m \in IgnoredFrames : ~AwaitRead(p, m)

C10_ProtocolFatal == [][C10_Step]_vars

\* a session was retired by a Choke read while chocked, after another had
\* exited
C10_Witness ==
    \E p, q \in Peers :
        /\ p # q
        /\ spc[p] = "exited"
        /\ spc[q] = "exited"
        /\ joined = [peer |-> q, res |-> "peer sent unchoke while unchoked"]
        /\ chocked[q]

\* ------------------------------------------------------------------ C11
\* C11: a session that reads Have(k) with k < P in one of its two read loops
\* has bit k of its remote bitfield set afterwards: wherever such a read can
\* happen, it can happen with k in the session's bitfield after it.  (No
\* action removes a bit, so a bit that is set stays set.)
C11_HaveSetsBit ==
    \A p \in Peers : \A m \in HaveFrames :
        (/\ pc = "select"
         /\ spc[p] \in {"wait_unchoke", "await_piece"}
         /\ m.index < NPieces(torrent))
        => ENABLED (/\ ChokedRead(p, m) \/ AwaitRead(p, m)
                    /\ m.index \in bitfield'[p])


\* ------------------------------------------------------------------ C12
\* C12: Peer::new yields a session only when the 68 bytes read back carry
\* length prefix 19 and the protocol string and the first framed message is
\* Bitfield; the session starts chocked, with the bitfield of that message.
C12_SessionOnlyAfterBitfield ==
    new_peer.ok =>
        /\ new_pc = "done"
        /\ handshake = remote.handshake
        /\ handshake.length = 19
        /\ handshake.bittorrent = Protocol
        /\ remote.first.typ = "Bitfield"
        /\ new_peer.chocked
        /\ new_peer.bitfield = remote.first.bits

\* a session was created from a Bitfield that advertises a piece
C12_Witness ==
    /\ new_peer.ok
    /\ new_peer.bitfield # {}

\* ------------------------------------------------------------------ C13
Min(a, b) == IF a < b THEN a ELSE b

\* the payload of the Request that session p sent for the block it holds
\* (peer.rs lines 125-130)
Request(p) ==
    PieceRequestNew(piece.index, block_i[p] * BLOCK_MAX,
                    BlockSize(block_i[p], n_blocks, piece.length))

RECURSIVE SumRequested(_)
\* the lengths requested for blocks 0 .. k-1 of the piece, added up
SumRequested(k) ==
    IF k = 0 THEN 0
    ELSE FromBe4(PieceRequestNew(piece.index, (k - 1) * BLOCK_MAX,
                                 BlockSize(k - 1, n_blocks, piece.length)).length)
         + SumRequested(k - 1)

\* C13: for a piece of length L_i >= 1 with K = ceil(L_i / B) blocks, the
\* Request for block j < K carries (i, j*B, min(B, L_i - j*B)), and the
\* requested lengths of blocks 0..K-1 sum to L_i.
C13_RequestCarriesBlock ==
    \A p \in Peers :
        (pc = "select" /\ spc[p] = "await_piece" /\ piece.length >= 1) =>
            LET j == block_i[p]
                r == Request(p)
            IN  /\ n_blocks = CeilDiv(piece.length, BLOCK_MAX)
                /\ j \in 0 .. (n_blocks - 1)
                /\ FromBe4(r.index) = piece.index
                /\ FromBe4(r.begin) = j * BLOCK_MAX
                /\ FromBe4(r.length) = Min(BLOCK_MAX, piece.length - j * BLOCK_MAX)
                /\ SumRequested(n_blocks) = piece.length

\* a Request is out for a last block that is not the first and is shorter
\* than BLOCK_MAX
C13_Witness ==
    \E p \in Peers :
        /\ pc = "select"
        /\ spc[p] = "await_piece"
        /\ block_i[p] = n_blocks - 1
        /\ block_i[p] >= 1
        /\ FromBe4(Request(p).length) = TailLen

\* ------------------------------------------------------------------ C14
\* C14: for every tag 0..8 and every payload p with |p| + 1 <= 2^16, decoding
\* the bytes that encode produced for (t, p) returns exactly (t, p) and
\* leaves the buffer empty: both for the encoded bytes as they stand in dst,
\* and once Framed has read them and called decode.
C14_RoundTrip ==
    (/\ Len(stream) = 1
     /\ stream[1].typ \in MessageTypes
     /\ Len(stream[1].payload) + 1 <= MAX)
    => /\ (src = <<>> /\ delivered = <<>>) =>
              Decode(dst) = [res |-> "some", item |-> stream[1], src |-> <<>>]
       /\ (dst = <<>> /\ dec = "some") =>
              (delivered = stream /\ src = <<>>)

\* Framed has read an encoded message of the highest tag with a payload and
\* decode returned it
C14_Witness ==
    /\ Len(stream) = 1
    /\ stream[1].typ = "Cancel"
    /\ Len(stream[1].payload) = MaxPayload
    /\ dec = "some"
    /\ delivered = stream
    /\ src = <<>>

\* ------------------------------------------------------------------ C15
\* C15: whenever the buffer starts with a complete 4-byte header that
\* declares a length greater than 2^16, decode answers with the "frame too
\* large" error, whatever follows the header (also when nothing follows).
C15_OversizeRejected ==
    (/\ Len(src) >= 4
     /\ FromBe4(SubSeq(src, 1, 4)) > MAX)
    => Decode(src).res = "too_large"

\* ------------------------------------------------------------------ C16
\* the messages among the items of a stream
Messages(s) == SelectSeq(s, LAMBDA x : x.typ \in MessageTypes)

IsPrefix(a, b) == Len(a) <= Len(b) /\ a = SubSeq(b, 1, Len(a))

\* C16: on a stream of valid frames and keep-alives, split into arriving
\* chunks in any way, decode delivers exactly the messages, in order, each
\* once: what was delivered is always a prefix of the messages sent, decode
\* never fails, and once every byte has arrived and decode asks for more,
\* every message was delivered and the buffer is empty.
C16_KeepAliveInterleaving ==
    (\A i \in 1 .. Len(stream) : stream[i].typ # "Raw")
    => /\ dec \in {"idle", "need", "some"}
       /\ IsPrefix(delivered, Messages(stream))
       /\ (dst = <<>> /\ dec = "need") =>
              (delivered = Messages(stream) /\ src = <<>>)

\* two messages with a keep-alive between them were delivered, and nothing
\* else
C16_Witness ==
    /\ Len(stream) = 3
    /\ stream[2] = KeepAliveItem
    /\ Len(Messages(stream)) = 2
    /\ delivered = Messages(stream)
    /\ dst = <<>>
    /\ dec = "need"

\* ------------------------------------------------------------------ C17
RECURSIVE Ascending(_)
\* the elements of a finite set of numbers in ascending order
Ascending(S) ==
    IF S = {} THEN <<>>
    ELSE LET least == CHOOSE x \in S : \A y \in S : x <= y
         IN  <<least>> \o Ascending(S \ {least})

\* C17: a Bitfield constructed empty with capacity n in which exactly the
\* indices of S were set yields S in ascending order from set_bits() and
\* [0,n) minus S in ascending order from unset_bits(), and no index >= n.
C17_SetAndUnsetBits ==
    bfield # NoBits =>
        /\ bfield_set \subseteq 0 .. (bfield.n_bits - 1)
        /\ SetBits(bfield) = Ascending(bfield_set)
        /\ UnsetBits(bfield) =
               Ascending((0 .. (bfield.n_bits - 1)) \ bfield_set)

\* a capacity that is not a multiple of 8, with a bit set in each of the two
\* bytes and a bit left unset in each
C17_Witness ==
    /\ bfield.n_bits = 9
    /\ bfield_set = {2, 8}

\* ------------------------------------------------------------------ C18
\* what has answers for every index after a step that changes only bit i
OnlyBit(i, value) ==
    /\ Has(bv', i) = value
    /\ \A j \in Indices \ {i} : Has(bv', j) = Has(bv, j)
    /\ bv'.n_bits = bv.n_bits
    /\ Len(bv'.bytes) = Len(bv.bytes)

C18_Step ==
    \A i \in Indices :
        /\ (BitVecSet(i) \/ BitVecUnset(i) \/ BitVecToggle(i)) =>
               IF i >= bv.n_bits
               THEN bv' = bv /\ bv_ret' = "bit index is out of range"
               ELSE bv_ret' = "ok"
        /\ (i < bv.n_bits /\ BitVecSet(i)) => OnlyBit(i, TRUE)
        /\ (i < bv.n_bits /\ BitVecUnset(i)) => OnlyBit(i, FALSE)
        /\ (i < bv.n_bits /\ BitVecToggle(i)) => OnlyBit(i, ~Has(bv, i))

\* C18: on a BitVec of capacity n, a call of set, unset or toggle with
\* i >= n returns an error and changes no bit, a call with i < n changes only
\* bit i (set to 1, unset to 0, toggle flips), and has(i) is false for every
\* i >= n.
C18_BitVecOps ==
    /\ [](bv # NoBits => \A i \in Indices : i >= bv.n_bits => ~Has(bv, i))
    /\ [][C18_Step]_vars

\* a capacity that is not a multiple of 8, a bit set in the last byte, and a
\* call that was refused
C18_Witness ==
    /\ bv.n_bits = 9
    /\ Has(bv, 8)
    /\ bv_ret = "bit index is out of range"

\* the addresses met from a by following the next pointers up to end; Null
\* marks a walk that left the heap or did not end
RECURSIVE WalkNext(_, _, _, _)
WalkNext(m, a, end, fuel) ==
    IF a = end THEN <<>>
    ELSE IF fuel = 0 \/ a \notin DOMAIN m THEN <<Null>>
    ELSE <<a>> \o WalkNext(m, m[a].next, end, fuel - 1)

RECURSIVE WalkPrev(_, _, _, _)
WalkPrev(m, a, end, fuel) ==
    IF a = end THEN <<>>
    ELSE IF fuel = 0 \/ a \notin DOMAIN m THEN <<Null>>
    ELSE <<a>> \o WalkPrev(m, m[a].prev, end, fuel - 1)

Forward(c, m) == WalkNext(m, m[c.head].next, c.tail, Cardinality(Addrs))

Backward(c, m) == WalkPrev(m, m[c.tail].prev, c.head, Cardinality(Addrs))

\* the walk visits exactly the keys of the map, each once
VisitsMap(c, m, walk) ==
    /\ \A i \in DOMAIN walk : walk[i] \in DOMAIN m \ {c.head, c.tail}
    /\ Len(walk) = LruLen(c)
    /\ {m[walk[i]].key : i \in DOMAIN walk} = DOMAIN c.map

\* C19: after any sequence of put, push, get, get_or_insert, peek, pop,
\* pop_entry, pop_lru, pop_mru, promote, demote, resize and clear, the cache
\* holds at most cap entries, and the walk from head to tail and the walk from
\* tail to head each visit exactly the keys of the map, each exactly once.
C19_LinkageMatchesMap ==
    cache # NoCache =>
        /\ LruLen(cache) <= cache.cap
        /\ VisitsMap(cache, mem, Forward(cache, mem))
        /\ VisitsMap(cache, mem, Backward(cache, mem))

\* pop_entry has unlinked one of two entries, from whatever place of the list
C19_Witness ==
    /\ lru_call.op = "pop_entry"
    /\ lru_ret.tag = "Some"
    /\ LruLen(cache) = 1

\* the entries from the most to the least recently used
Entries(c, m) ==
    LET walk == Forward(c, m)
    IN  [i \in DOMAIN walk |-> <<m[walk[i]].key, m[walk[i]].val>>]

\* what put(k, v) and push(k, v) do to the entries and what they return
C20_Post(op, k, v) ==
    LET before == Entries(cache, mem)
        after == Entries(cache', mem')
        n == Len(before)
    IN  /\ cache'.cap = cache.cap
        /\ k \in DOMAIN cache.map =>
              LET old == mem[cache.map[k]].val
              IN  /\ after = <<<<k, v>>>> \o
                             SelectSeq(before, LAMBDA e : e[1] # k)
                  /\ lru_ret' = IF op = "put" THEN SomeV(old)
                                ELSE SomeKV(k, old)
        /\ (k \notin DOMAIN cache.map /\ n < cache.cap) =>
              after = <<<<k, v>>>> \o before
        /\ (k \notin DOMAIN cache.map /\ n = cache.cap) =>
              /\ after = <<<<k, v>>>> \o SubSeq(before, 1, n - 1)
              /\ lru_ret' = IF op = "put" THEN None
                            ELSE SomeKV(before[n][1], before[n][2])

C20_Step ==
    lru_call'.op \in {"put", "push"} =>
        C20_Post(lru_call'.op, lru_call'.k, lru_call'.v)

\* C20: put(k, v) and push(k, v) on a present k replace the value, make k the
\* most recently used entry, return the old value and evict nothing; on an
\* absent k with len < cap they insert k as the most recently used entry and
\* evict nothing; on an absent k with len = cap they remove exactly the least
\* recently used entry and insert k as the most recently used one, push
\* returning the evicted pair and put returning None.
C20_PutAndPush == [][C20_Step]_vars

\* push on a full cache of two entries has returned the pair it evicted
C20_Witness ==
    /\ lru_call.op = "push"
    /\ lru_ret.tag = "Some"
    /\ lru_ret.k \notin DOMAIN cache.map
    /\ LruLen(cache) = 2

\* ------------------------------------------------------------------ C21
C21_Step ==
    lru_call'.op \in {"get", "peek", "contains"} =>
        LET k == lru_call'.k
            before == Entries(cache, mem)
            after == Entries(cache', mem')
            present == k \in DOMAIN cache.map
            found == IF present THEN SomeV(mem[cache.map[k]].val) ELSE None
        IN  /\ cache' = cache
            /\ lru_ret' = IF lru_call'.op = "contains" THEN Bool(present)
                          ELSE found
            /\ after = IF lru_call'.op = "get" /\ present
                       THEN <<<<k, found.v>>>> \o
                            SelectSeq(before, LAMBDA e : e[1] # k)
                       ELSE before
            \* with another entry in the cache, the entry get has read is
            \* not the one before tail, which the next insertion evicts
            /\ (lru_call'.op = "get" /\ present /\ Len(before) >= 2) =>
                   after[Len(after)][1] # k

C21_PeekedIsNextEvicted ==
    /\ lru_call.op = "peek"
    /\ lru_ret.tag = "Some"
    /\ LruLen(cache) = 2
    /\ mem[mem[cache.tail].prev].key = lru_call.k

\* ------------------------------------------------------------------ C22
RECURSIVE Reverse(_)
Reverse(q) == IF q = <<>> THEN <<>> ELSE Reverse(Tail(q)) \o <<Head(q)>>

\* C22: iter() yields every entry once, from the most to the least recently
\* used; iter().rev() yields every entry once, from the least to the most
\* recently used; the clone of a cache holds the entries of the cache in the
\* same recency order.
C22_IterationOrder ==
    /\ lru_call.op = "iter" => lru_seen = Entries(cache, mem)
    /\ lru_call.op = "iter_rev" =>
           /\ lru_ret = Unit
           /\ lru_seen = Reverse(Entries(cache, mem))
    /\ lru_call.op = "clone" =>
           /\ lru_ret = Unit
           /\ lru_seen = Entries(cache, mem)

\* C23: while the heartbeat waits after the k-th failed announce in a row
\* (k >= 1), the wait is 2^(k-1) seconds: 1 second for the first failure,
\* also for the first one that follows a successful announce, and twice the
\* wait before for each failure after it.
C23_BackoffDoubles ==
    hb_pc = "sleep_backoff" => fails >= 1 /\ backoff = 2 ^ (fails - 1)

\* the heartbeat waits after its MaxFails-th failure in a row, and these
\* failures follow a successful announce
C23_Witness ==
    /\ hb_pc = "sleep_backoff"
    /\ fails = MaxFails
    /\ backoff = 2 ^ (MaxFails - 1)
    /\ interval > 0

\* C24: a successful announce replaces peer_addrs with the peers of its
\* response and notifies the orchestrator, and the heartbeat then sleeps the
\* interval of that response before it announces again; nothing else changes
\* peer_addrs or notifies, a failed announce least of all.
C24_Step ==
    /\ hb_pc = "store" /\ hb_pc' # hb_pc
       => /\ resp.ok
          /\ peer_addrs' = resp.peers
          /\ notify'
          /\ hb_pc' = "sleep_interval"
          /\ interval' = resp.interval
    /\ hb_pc = "query" /\ hb_pc' = "sleep_backoff"
       => /\ ~resp'.ok
          /\ peer_addrs' = peer_addrs
          /\ notify' = notify
    /\ peer_addrs' # peer_addrs \/ (notify' /\ ~notify)
       => hb_pc = "store" /\ hb_pc' = "sleep_interval"
    /\ hb_pc' = "lock_metadata" /\ hb_pc # hb_pc'
       => \/ hb_pc = "sleep_backoff" /\ ~resp.ok
          \/ hb_pc = "sleep_interval" /\ (resp.ok => interval = resp.interval)

C24_AnnounceReplacesAndNotifies == [][C24_Step]_vars

\* an announce has replaced addresses that sessions were opened from with
\* the empty list of its response, and the orchestrator is notified
C24_Witness ==
    /\ hb_pc = "sleep_interval"
    /\ resp.ok
    /\ resp.peers = {}
    /\ peer_addrs = {}
    /\ notify
    /\ n_peers > 0
    /\ run_pc = "wait"

\* C25: while download::all opens its sessions, at most 5 attempts are in
\* flight and at most 5 sessions are in the list, however many addresses the
\* tracker gave; the sessions are the attempts that succeeded, and a failed
\* attempt is in the log and not among the sessions.
C25_AtMostFive ==
    /\ Cardinality(InFlight) <= 5
    /\ Len(conn_peers) <= 5
    /\ \A a, b \in DOMAIN conn_peers : a # b => conn_peers[a] # conn_peers[b]
    /\ {conn_peers[a] : a \in DOMAIN conn_peers}
         = {i \in DOMAIN attempts : attempts[i] = "ok"}
    /\ conn_log = {i \in DOMAIN attempts : attempts[i] = "err"}

\* the tracker gave more than 5 addresses, and the fifth session has ended
\* the loop after a failed attempt and with another attempt in flight
C25_Witness ==
    /\ conn_pc = "done"
    /\ Len(conn_peers) = 5
    /\ conn_log # {}
    /\ \E i \in DOMAIN attempts : attempts[i] = "dropped"
    /\ Len(attempts) > 5

\* C26: the k-th item an iteration of a Downloaded returns is the k-th file
\* with the bytes that start at the sum of the lengths of the files before it
\* and are as many as its length, so that the slices of an iteration run to
\* its end lie one after the other and make up the whole of bytes.
C26_SlicesAtCumulativeOffsets ==
    /\ \A k \in DOMAIN dl_out :
         LET start == LengthOfFiles(dl_files, k - 1)
         IN  /\ dl_out[k].file = k
             /\ dl_out[k].start = start
             /\ dl_out[k].bytes = SubSeq(dl_bytes, start + 1, start + dl_files[k])
    /\ Len(dl_out) = Len(dl_files)
       => dl_out[Len(dl_out)].start + dl_files[Len(dl_files)] = Len(dl_bytes)

\* C27: when download::all returns Ok, every piece i of the torrent has been
\* written once, at offset i * piece_length and with its length; the ranges
\* written do not overlap and make up the length of the torrent, and the
\* bytes written are those of the original, in whichever order the pieces
\* were popped.
C27_Written ==
    LET n_pieces == NPieces(torrent)
    IN  /\ \A i \in 0 .. (n_pieces - 1) :
              \E w \in downloaded_pieces :
                  /\ w.index = i
                  /\ w.offset = i * torrent.piece_length
                  /\ w.length = LawLength(torrent, i)
                  /\ w.data = Original(w.length)
        /\ Cardinality(downloaded_pieces) = n_pieces
        /\ \A a, b \in downloaded_pieces :
              a # b => \/ a.offset + a.length <= b.offset
                       \/ b.offset + b.length <= a.offset
        /\ SumLengths(downloaded_pieces) = torrent.length

C27_WriteStep ==
    /\ pc = "check" /\ pc' = "pop"
       => /\ \A w \in downloaded_pieces : w.index # piece.index
          /\ downloaded_pieces' # downloaded_pieces
    /\ downloaded_pieces' # downloaded_pieces => pc = "check" /\ pc' = "pop"

C27_WrittenOnceInPlace ==
    [](pc = "returned" /\ result = "Ok" => C27_Written) /\ [][C27_WriteStep]_vars

\* download::all has returned Ok for a torrent of two pieces
C27_Witness ==
    /\ pc = "returned"
    /\ result = "Ok"
    /\ NPieces(torrent) = 2
    /\ Cardinality(downloaded_pieces) = 2

\* the last piece of a torrent of two was popped and written first
C27_LastPieceFirst ==
    /\ pc = "pop"
    /\ NPieces(torrent) = 2
    /\ \E w \in downloaded_pieces : w.index = 1
    /\ \E a \in pieces_to_download : a.index = 0

\* C28: when a peer that unchokes and answers every Request with the right
\* block has every piece of the torrent, download::all returns Ok in the end
\* with all the bytes of the torrent written, whatever the length and the
\* piece length.
C28_GoodProviderHasAll ==
    \A i \in 0 .. (NPieces(torrent) - 1) : \E p \in GoodPeers : i \in bitfield[p]

C28_Returned ==
    /\ pc = "returned"
    /\ result = "Ok"
    /\ SumLengths(downloaded_pieces) = torrent.length

C28_EventuallyReturnsOk == C28_GoodProviderHasAll => <>C28_Returned

\* C29: when a session has exited with an error and left a block that is
\* not in the work queue, not with a session still running, not on the done
\* channel and not received, while a session whose peer unchokes and answers
\* is still running, the download of the piece ends in the end with all the
\* bytes of the piece received.
C29_Orphaned(b) ==
    /\ pc = "select"
    /\ joined.res \notin {"none", "Ok"}
    /\ GoodPeers \cap participants # {}
    /\ b < n_blocks
    /\ \A k \in DOMAIN job_q : job_q[k] # b
    /\ \A p \in participants : block_i[p] # b
    /\ \A k \in DOMAIN done_q : done_q[k].begin # b * BLOCK_MAX
    /\ downloaded_blocks[b + 1] = 0

C29_PieceFinished == pc = "check" /\ bytes_received = piece.length

C29_SurvivorFinishes ==
    \A b \in 0 .. MaxBlocks : C29_Orphaned(b) ~> C29_PieceFinished

\* C30: when all the bytes of the piece have arrived, the sessions of the
\* piece have seen the work queue closed and returned: none of them is
\* cancelled where it waits.
C30_SessionsReturnOk ==
    (pc = "check" /\ bytes_received = piece.length)
        => \A p \in piece.peers : spc[p] = "exited"

\* C31: a session whose work loop has exited with an error is not among the
\* participants of a later piece, so that nothing more is sent on it. A
\* session leaves participate by itself only with an error: job_rx.recv()
\* does not fail while the session holds its own job_tx.
C31_Step ==
    (pc = "pop" /\ pc' = "select")
        => \A p \in participants' : spc[p] # "exited"

C31_ErroredStaysOut == [][C31_Step]_vars

\* C34: over its lifetime a session sends Interested at most once, also when
\* it takes part in the download of more than one piece. Peer::new leaves
\* chocked set, and only an Unchoke read after Interested went out clears
\* it: a session that sends Interested while it is not choked has sent it
\* before.
C34_Step ==
    \A p \in Peers :
        (pc = "select" /\ spc[p] = "start"
            /\ spc'[p] \in {"wait_unchoke", "pull"}) => chocked[p]

C34_InterestedOnce == [][C34_Step]_vars

\* C32: while a piece is downloaded, bytes_received is the total length of
\* the blocks written into the piece buffer, each counted once; the blocks
\* on the done channel are distinct and not yet written; so bytes_received
\* is at most the length of the piece and equal to it only when every block
\* is written.
RECURSIVE WrittenLength(_)
WrittenLength(k) ==
    IF k = 0 THEN 0
    ELSE WrittenLength(k - 1)
         + (IF downloaded_blocks[k] # 0
            THEN BlockSize(k - 1, n_blocks, piece.length)
            ELSE 0)

C32_CounterMatchesBuffer ==
    pc \in {"select", "check"} =>
        /\ bytes_received = WrittenLength(n_blocks)
        /\ bytes_received <= piece.length
        /\ bytes_received = piece.length
             <=> \A k \in 1 .. n_blocks : downloaded_blocks[k] # 0
        /\ \A a, b \in DOMAIN done_q :
             a # b => done_q[a].begin # done_q[b].begin
        /\ \A a \in DOMAIN done_q :
             downloaded_blocks[(done_q[a].begin \div BLOCK_MAX) + 1] = 0

\* block 0 of a piece of two blocks went back to the work queue after a
\* Choke, and block 1 was written in the meantime
C32_Witness ==
    /\ pc = "select"
    /\ n_blocks = 2
    /\ job_q = <<0>>
    /\ downloaded_blocks[1] = 0
    /\ downloaded_blocks[2] # 0
    /\ bytes_received = BlockSize(1, n_blocks, piece.length)

\* C33: what a session hands to the done channel is a Piece message of the
\* piece being downloaded, at the offset of the block the session holds and
\* with the length requested for that block; a Piece of another index or
\* offset is never taken for the block.  So every message on the done
\* channel lies within the piece buffer.
C33_Matches(m, p) ==
    /\ m.typ = "Piece"
    /\ m.index = piece.index
    /\ m.begin = block_i[p] * BLOCK_MAX
    /\ m.n - LEAD = BlockSize(block_i[p], n_blocks, piece.length)

C33_Step ==
    \A p \in Peers :
        /\ spc[p] = "await_piece" /\ spc'[p] = "send_done"
           => /\ C33_Matches(msg'[p], p)
              /\ block_i'[p] = block_i[p]
        /\ spc[p] = "send_done" /\ spc'[p] # "send_done"
             /\ Len(done_q') > Len(done_q)
           => /\ done_q' = Append(done_q, msg[p])
              /\ C33_Matches(msg[p], p)

C33_InBuffer ==
    \A k \in DOMAIN done_q :
        /\ done_q[k].typ = "Piece"
        /\ done_q[k].index = piece.index
        /\ done_q[k].begin >= 0
        /\ done_q[k].begin + (done_q[k].n - LEAD) <= piece.length

C33_ForwardsOnlyItsBlock == []C33_InBuffer /\ [][C33_Step]_vars

\* the last block of a piece of two blocks is on the done channel
C33_Witness ==
    /\ n_blocks = 2
    /\ done_q # <<>>
    /\ done_q[1].begin = BLOCK_MAX
    /\ done_q[1].n = LEAD + TailLen

\* C35: no task holds the lock of metadata or of peer_addrs while it does
\* network I/O: the heartbeat does not hold the lock of metadata while
\* query_tracker runs, it holds the lock of peer_addrs only to replace the
\* addresses, and Torrent::run does not hold the lock of peer_addrs while
\* it connects to the peers.
C35_NoLockDuringIO ==
    /\ hb_pc = "query" => metadata_lock # "heartbeat"
    /\ peer_addrs_lock = "heartbeat" => hb_pc = "store"
    /\ run_pc = "connect" /\ inflight # {} => peer_addrs_lock # "run"

\* C36: the sessions in peers are never more than the permits of max_peers,
\* however often the tracker is asked and whatever it answers.
C36_SessionsWithinPermits == n_peers <= max_peers

\* C40: the heartbeat and Torrent::run never wait for each other: there is
\* no state in which each waits for a lock that the other holds, and neither
\* waits for a lock it holds itself.
HbWaitsFor ==
    CASE hb_pc = "lock_metadata" -> metadata_lock
      [] hb_pc = "lock_peer_addrs" -> peer_addrs_lock
      [] OTHER -> "free"

RunWaitsFor ==
    CASE run_pc = "lock_peer_addrs" -> peer_addrs_lock
      [] run_pc = "connect" /\ pending = {} /\ inflight = {} ->
            IF metadata_lock # "free" THEN metadata_lock ELSE peers_lock
      [] OTHER -> "free"

C40_NoCircularWait ==
    /\ ~(HbWaitsFor = "run" /\ RunWaitsFor = "heartbeat")
    /\ HbWaitsFor # "heartbeat"
    /\ RunWaitsFor # "run"

\* Torrent::run holds the lock of peer_addrs and waits for the lock of
\* metadata, which the heartbeat holds during an announce
C40_Witness ==
    /\ peer_addrs_lock = "run"
    /\ RunWaitsFor = "heartbeat"
    /\ hb_pc = "query"
    /\ n_peers > 0

\* C37: a call of decode that returns a message takes from the front of the
\* buffer the keep-alive frames before the message and the 4 + length bytes
\* of its frame, and leaves the bytes after it; a call that asks for more
\* bytes or fails takes only leading keep-alive frames; a frame that is
\* complete in the buffer and has a tag above 8 fails as an invalid message
\* type.
RECURSIVE StripKeepAlives(_)
StripKeepAlives(b) ==
    IF Len(b) >= 4 /\ SubSeq(b, 1, 4) = <<0, 0, 0, 0>>
    THEN StripKeepAlives(SubSeq(b, 5, Len(b)))
    ELSE b

C37_Decoded ==
    \/ delivered' # delivered
    \/ dec' # dec /\ dec' # "idle"

C37_Step ==
    C37_Decoded =>
        LET rest == StripKeepAlives(src)
            length == IF Len(rest) >= 4 THEN FromBe4(SubSeq(rest, 1, 4)) ELSE 0
            whole == Len(rest) >= 5 /\ length <= MAX /\ Len(rest) >= 4 + length
        IN  /\ dec' = "some"
               => /\ whole
                  /\ Len(src') = Len(rest) - (4 + length)
                  /\ src' = SubSeq(rest, 4 + length + 1, Len(rest))
                  /\ delivered' = Append(delivered, delivered'[Len(delivered')])
            /\ dec' # "some" => src' = rest /\ delivered' = delivered
            /\ dec' = "bad_type" <=> (whole /\ rest[5] > 8)

C37_DecodeConsumesItsFrame == [][C37_Step]_vars

\* decode has returned the message behind a keep-alive and left the bytes
\* that follow it in the buffer
C37_Witness ==
    /\ dec = "some"
    /\ Len(delivered) = 1
    /\ stream[1] = KeepAliveItem
    /\ src # <<>>

\* decode has refused a complete frame with tag 9
C37_BadTypeSeen == dec = "bad_type" /\ Len(src) = 5

\* C38: while a piece is downloaded, each of its blocks is in at most one
\* place: in the work queue, with one session, or handed to the done channel
\* (waiting there or written).  So the work queue has room for the block of
\* every session that may read a Choke, and the done channel for the block
\* of every session that is about to send.
C38_Places(b) ==
    Occurrences(job_q, b)
    + Cardinality({p \in participants : block_i[p] = b})
    + Cardinality({k \in DOMAIN done_q : done_q[k].begin = b * BLOCK_MAX})
    + (IF downloaded_blocks[b + 1] # 0 THEN 1 ELSE 0)

C38_BlocksInOnePlace ==
    pc = "select" =>
        /\ \A b \in 0 .. (n_blocks - 1) : C38_Places(b) <= 1
        /\ \A k \in DOMAIN job_q : job_q[k] \in 0 .. (n_blocks - 1)
        /\ \A p \in participants :
             /\ block_i[p] # NoBlock => block_i[p] \in 0 .. (n_blocks - 1)
             /\ spc[p] = "await_piece" => Len(job_q) < n_blocks
             /\ spc[p] = "send_done" => Len(done_q) < n_blocks

\* block 0 of a piece of two blocks is back in the work queue, a session
\* holds block 1 with its Request out
C38_Witness ==
    /\ pc = "select"
    /\ n_blocks = 2
    /\ job_q = <<0>>
    /\ \E p \in participants : block_i[p] = 1 /\ spc[p] = "await_piece"

\* C39: in the step in which download::all finds bytes_received equal to
\* the length of the piece and drops the sessions, the work queue is empty
\* and no session holds a block or has a Request out: each session still
\* running waits for work or for an Unchoke, or has not begun, so that no
\* block asked for is given up.
C39_Step ==
    (pc = "select" /\ pc' = "check" /\ bytes_received' = piece.length) =>
        /\ job_q = <<>>
        /\ \A p \in participants :
             /\ block_i[p] = NoBlock
             /\ msg[p] = NoMsg
             /\ outstanding[p] = 0
             /\ spc[p] \in {"start", "wait_unchoke", "pull"}
             /\ spc'[p] = "dropped"
        /\ \A k \in 1 .. n_blocks : downloaded_blocks'[k] # 0

====
